---- MODULE Spec2Model ----
(***************************************************************************)
(* A model of the texxteditor desktop editor: the document buffer and its  *)
(* file operations, the settings store, find / replace on the text widget, *)
(* and the audio recording / transcription subsystem.                      *)
(*                                                                         *)
(* Each subsystem has its own specification (SpecFile, SpecSettings,       *)
(* SpecSearch, SpecAudio, SpecRecorder, SpecStart, SpecHandler,            *)
(* SpecShortcuts, SpecApp, SpecSelection): the subsystems only share the   *)
(* text widget and                                                         *)
(* the settings object, and a specification leaves the variables of the    *)
(* other subsystems unchanged.                                             *)
(***************************************************************************)
EXTENDS Integers, Sequences, FiniteSets, TLC

VARIABLES
    \* ---- the text widget (tk.Text) ----
    text,          \* the characters of the buffer, text_widget.get("1.0", "end-1c")
    bold,          \* the positions (1..Len(text)) carrying the "bold" tag
    insert,        \* the INSERT mark: the number of characters before the cursor
    searchTag,     \* the positions carrying the "search" highlight tag
    \* ---- FileOperations / ModernTextEditor ----
    impl,          \* which class owns the document: file/operations.py or editor.py
    linesep,       \* os.linesep of the platform the program runs on
    current_file,  \* self.current_file (NoFile for None)
    fs,            \* the file system: path -> [kind, data]
    lastDlg,       \* what the file dialog of the last operation returned (Cancel if none)
    exited,        \* exit_app has called root.quit(): the main loop has ended
    \* ---- SettingsManager ----
    settings,      \* self.settings: path of keys -> value
    config,        \* the config file ~/.texxteditor/config.json
    lastArg,       \* the <<key path, value>> the last settings update was called with
    \* ---- find / replace (TextSearcher, TextFormatter, the editor's dialog) ----
    srchImpl,      \* which implementation is used
    srchText,      \* search_text of the last call (find_text or replace_all)
    srchRepl,      \* replace_text of the last call, if it was replace_all
    srchCase,      \* case_sensitive of the last call
    raPc,          \* replace_all: "loop" inside while True, "done" after it, else "idle"
    raCount,       \* replace_all: count
    raOcc,         \* the occurrences of search_text when replace_all was called
    \* ---- AudioRecorder / SystemAudioCapture / TranscriptionService ----
    audObj,           \* the object looked at: "AudioRecorder" or "SystemAudioCapture"
    is_recording,     \* self.is_recording
    is_paused,        \* self.is_paused (SystemAudioCapture)
    audio_frames,     \* len(self.audio_frames)
    audio_queue,      \* self.audio_queue.qsize() (SystemAudioCapture)
    continuous_mode,  \* self.continuous_mode (SystemAudioCapture)
    recording_thread, \* self.recording_thread: the id of a thread, 0 for None
    thr,              \* the recording threads started so far: id -> [kind, pc, cb]
    proc,             \* the thread of _process_continuous_audio: "none" or "run"
    chunk,            \* len(chunk_frames) in _process_continuous_audio
    keys,             \* the shortcut keys held down
    stopPc,           \* stop_capture: "joining" inside recording_thread.join, else "idle"
    stopped,          \* stop_capture returned True and no capture was started since
    temp_files,       \* the temporary WAV files the step just taken left on disk
    delivered,        \* the text the step just taken handed to the text callback
    tx,               \* the call of transcribe_with_openai the step just taken made
    \* ---- TextHandler (text blocks on the canvas) ----
    block_width,       \* self.block_width, in pixels
    text_blocks,       \* self.text_blocks: the stored blocks, each [id, text]
    current_text_item, \* self.current_text_item: a canvas item id, 0 for None
    current_text,      \* self.current_text
    insertion_index,   \* self.insertion_index
    canvas_items,      \* the number of items the canvas has created (the last id)
    char,              \* the character the step just taken called add_character with ("" if none)
    \* ---- the global hotkeys (keyboard.add_hotkey / remove_hotkey) ----
    hotkeys,           \* the registered hotkeys, oldest first, each [combo, action]
    saves,             \* the number of save_shortcuts calls so far
    pressed,           \* the key combination the step just taken pressed ("" if none)
    triggered,         \* the editor actions that key press triggered
    \* ---- the threads that call the start methods of a recorder ----
    calls,             \* caller -> "idle", or "checked" between the checks of a
                       \* start method and its assignments
    \* ---- TextEditorApp with its two recorders (system audio shortcut) ----
    recs,              \* recorder object -> [is_recording, audio_frames, pc of its thread]
    held,              \* the system-audio shortcut key is held down
    holds,             \* the number of press-and-holds of that key so far
    started,           \* the number of recordings started so far
    requests,          \* the number of transcription requests sent so far
    inserted,          \* the number of transcripts add_transcribed_text inserted
    \* ---- SelectionHandler (block selection and drag-move) ----
    block_xy,          \* block id -> <<block['x'], block['y']>> of the stored blocks
    selected_blocks,   \* self.selected_blocks: the ids of the selected blocks
    is_moving_blocks,  \* self.is_moving_blocks
    move_start_x,      \* self.move_start_x
    move_start_y,      \* self.move_start_y
    drag_pure,         \* a drag is under way and only update_block_movement was
                       \* called since it started
    drag_origin,       \* while drag_pure: the pointer position the drag started at
    drag_from,         \* while drag_pure: block_xy when the drag started
    drag_last,         \* while drag_pure: the pointer position of the last update
    \* ---- the last call ----
    lastOp,        \* the operation that ran last
    lastRet        \* what it returned

docVars == <<text, bold, insert, searchTag>>
fileVars == <<impl, linesep, current_file, fs, lastDlg, exited>>
setVars == <<settings, config, lastArg>>
srchVars == <<srchImpl, srchText, srchRepl, srchCase, raPc, raCount, raOcc>>
audVars == <<audObj, is_recording, is_paused, audio_frames, audio_queue, continuous_mode,
             recording_thread, thr, proc, chunk, keys, stopPc, stopped, temp_files,
             delivered, tx>>
hdlVars == <<block_width, text_blocks, current_text_item, current_text, insertion_index,
             canvas_items, char>>
keyVars == <<hotkeys, saves, pressed, triggered>>
callVars == <<calls>>
appVars == <<recs, held, holds, started, requests, inserted>>
selVars == <<block_xy, selected_blocks, is_moving_blocks, move_start_x, move_start_y,
             drag_origin, drag_from, drag_last, drag_pure>>
restVars == <<hdlVars, keyVars, callVars, appVars, selVars>>
vars == <<docVars, fileVars, setVars, srchVars, audVars, restVars, lastOp, lastRet>>

\* what the operations of one subsystem leave alone
notSearch == <<fileVars, setVars, audVars, restVars>>
notAudio == <<docVars, fileVars, srchVars, config, lastArg, restVars>>
notFile == <<setVars, srchVars, audVars, restVars>>
notSettings == <<docVars, fileVars, srchVars, audVars, restVars>>
notHandler == <<docVars, fileVars, setVars, srchVars, audVars, keyVars, callVars, appVars,
                selVars>>
notShortcuts == <<docVars, fileVars, srchVars, audVars, hdlVars, callVars, appVars, selVars,
                  lastArg>>
notApp == <<docVars, fileVars, setVars, srchVars, audVars, hdlVars, keyVars, callVars,
            selVars>>
notSelection == <<docVars, fileVars, setVars, srchVars, audVars, keyVars, callVars, appVars>>

----------------------------------------------------------------------------
(* Bounds *)

\* longest buffer built by typing
MaxLen == 1

----------------------------------------------------------------------------
(* Sequences *)

\* s with the sequence x inserted after its first i elements
InsertAt(s, i, x) == SubSeq(s, 1, i) \o x \o SubSeq(s, i + 1, Len(s))

\* s without its elements i+1 .. j
RemoveRange(s, i, j) == SubSeq(s, 1, i) \o SubSeq(s, j + 1, Len(s))

\* tk.Text keeps a tag on the characters that carry it: after n characters are
\* inserted at i the tagged positions behind i move by n, and the new
\* characters carry the tag only when both neighbours carry it
TagAfterInsert(T, i, n) ==
    {p \in T : p <= i} \cup {p + n : p \in {q \in T : q > i}}
        \cup (IF i \in T /\ (i + 1) \in T THEN (i + 1)..(i + n) ELSE {})

\* after the characters i+1 .. j are deleted
TagAfterDelete(T, i, j) ==
    {p \in T : p <= i} \cup {p - (j - i) : p \in {q \in T : q > j}}

----------------------------------------------------------------------------
(* The document and its files *)

NoFile == "None"
Cancel == "cancelled"
Paths == {"p1", "p2"}
TypedChars == {"a", "LF"}
Whitespace == {"LF", "CR", " "}
LineSeps == {<<"LF">>, <<"CR", "LF">>}
Impls == {"FileOperations", "ModernTextEditor"}

\* file.write in text mode: every "\n" is written as os.linesep
RECURSIVE EncodeNewlines(_, _)
EncodeNewlines(s, ls) ==
    IF s = <<>> THEN <<>>
    ELSE (IF Head(s) = "LF" THEN ls ELSE <<Head(s)>>) \o EncodeNewlines(Tail(s), ls)

\* file.read in text mode (universal newlines): "\r\n" and "\r" are read as "\n"
RECURSIVE DecodeNewlines(_)
DecodeNewlines(d) ==
    IF d = <<>> THEN <<>>
    ELSE IF Head(d) = "CR"
         THEN <<"LF">> \o DecodeNewlines(IF Len(d) > 1 /\ d[2] = "LF"
                                         THEN Tail(Tail(d)) ELSE Tail(d))
         ELSE <<Head(d)>> \o DecodeNewlines(Tail(d))

\* str.strip(): without leading and trailing whitespace
RECURSIVE LStrip(_)
LStrip(s) == IF s # <<>> /\ Head(s) \in Whitespace THEN LStrip(Tail(s)) ELSE s
RECURSIVE RStrip(_)
RStrip(s) ==
    IF s # <<>> /\ s[Len(s)] \in Whitespace THEN RStrip(SubSeq(s, 1, Len(s) - 1)) ELSE s
Strip(s) == RStrip(LStrip(s))

\* a mutant of WidgetGet: the bold characters are written with a markup sign
RECURSIVE WidgetGetMarkup(_, _)
WidgetGetMarkup(t, b) ==
    IF t = <<>> THEN <<>>
    ELSE WidgetGetMarkup(SubSeq(t, 1, Len(t) - 1), b)
            \o (IF Len(t) \in b THEN <<"*", t[Len(t)]>> ELSE <<t[Len(t)]>>)

\* text_widget.get("1.0", "end-1c"): the characters, whatever their tags
WidgetGet(t, b) == t

\* has_content (FileOperations strips the text, ModernTextEditor does not)
has_content ==
    IF impl = "FileOperations" THEN Len(Strip(WidgetGet(text, bold))) > 0
    ELSE WidgetGet(text, bold) # <<>>

AbsentFile == [kind |-> "absent", data |-> <<>>]
PlainFile(d) == [kind |-> "file", data |-> d]

\* the files that exist before the program starts: a text file with a
\* Windows line ending at p1, nothing at p2
InitFs == [p \in Paths |-> IF p = "p1" THEN PlainFile(<<"a", "CR", "LF">>) ELSE AbsentFile]

\* the try block of save_file on path p: when open(p, 'w') fails the file is
\* as it was; a failing write leaves the truncated file behind
WriteResult(p, f, wr) ==
    IF wr = "open_error" THEN [cf |-> p, fs |-> f, ret |-> "False"]
    ELSE IF wr = "ok"
         THEN [cf |-> p,
               fs |-> [f EXCEPT ![p] =
                          PlainFile(EncodeNewlines(WidgetGet(text, bold), linesep))],
               ret |-> "True"]
         ELSE [cf |-> p, fs |-> [f EXCEPT ![p] = PlainFile(<<>>)], ret |-> "False"]

\* save_file_as: dlg is what asksaveasfilename returned
SaveFileAsResult(f, dlg, wr) ==
    IF dlg = Cancel THEN [cf |-> current_file, fs |-> f, ret |-> "False"]
    ELSE WriteResult(dlg, f, wr)

\* save_file
SaveFileResult(f, dlg, wr) ==
    IF current_file = NoFile THEN SaveFileAsResult(f, dlg, wr)
    ELSE WriteResult(current_file, f, wr)

WriteOutcomes == {"ok", "open_error", "io_error"}
DialogAnswers == Paths \cup {Cancel}

\* the user types character c: it is inserted at the INSERT mark
TypeChar(c) ==
    /\ ~exited
    /\ Len(text) < MaxLen
    /\ text' = InsertAt(text, insert, <<c>>)
    /\ bold' = TagAfterInsert(bold, insert, 1)
    /\ searchTag' = TagAfterInsert(searchTag, insert, 1)
    /\ insert' = insert + 1
    /\ lastOp' = "type" /\ lastRet' = "None" /\ lastDlg' = Cancel
    /\ UNCHANGED <<impl, linesep, exited, current_file, fs>>
    /\ UNCHANGED notFile

\* toggle_bold with the characters i+1 .. j selected
toggle_bold(i, j) ==
    /\ ~exited
    /\ 0 <= i /\ i < j /\ j <= Len(text)
    /\ bold' = IF (i + 1) \in bold THEN bold \ ((i + 1)..j) ELSE bold \cup ((i + 1)..j)
    /\ lastOp' = "toggle_bold" /\ lastRet' = "True" /\ lastDlg' = Cancel
    /\ UNCHANGED <<text, insert, searchTag, impl, linesep, exited, current_file, fs>>
    /\ UNCHANGED notFile

save_file(dlg, wr) ==
    LET r == SaveFileResult(fs, dlg, wr) IN
    /\ ~exited
    /\ (current_file # NoFile => dlg = Cancel)
    /\ current_file' = r.cf
    /\ fs' = r.fs
    /\ lastOp' = "save_file" /\ lastRet' = r.ret /\ lastDlg' = dlg
    /\ UNCHANGED <<docVars, impl, linesep, exited>>
    /\ UNCHANGED notFile

save_file_as(dlg, wr) ==
    LET r == SaveFileAsResult(fs, dlg, wr) IN
    /\ ~exited
    /\ current_file' = r.cf
    /\ fs' = r.fs
    /\ lastOp' = "save_file_as" /\ lastRet' = r.ret /\ lastDlg' = dlg
    /\ UNCHANGED <<docVars, impl, linesep, exited>>
    /\ UNCHANGED notFile

\* a mutant of OpenedText: the file's content is put in front of the old text
OpenedTextKeepsOld(content) == content \o text

\* the buffer after delete("1.0", "end") and insert("1.0", content)
OpenedText(content) == content

\* open_file: yes is the answer to the save prompt, sdlg and wr the save
\* dialog and the write of the save it leads to, dlg the open dialog
open_file(yes, sdlg, wr, dlg) ==
    LET saved == IF has_content /\ yes THEN SaveFileResult(fs, sdlg, wr)
                 ELSE [cf |-> current_file, fs |-> fs, ret |-> "None"]
        opened == dlg # Cancel /\ saved.fs[dlg].kind = "file"
        fail == IF impl = "FileOperations" THEN "False" ELSE "None"
        done == IF impl = "FileOperations" THEN "True" ELSE "None"
    IN
    /\ ~exited
    /\ (~has_content => ~yes)
    /\ (~(has_content /\ yes /\ current_file = NoFile) => sdlg = Cancel)
    /\ (~(has_content /\ yes) => wr = "ok")
    /\ fs' = saved.fs
    /\ lastDlg' = dlg
    /\ lastOp' = "open_file"
    /\ IF opened
       THEN /\ text' = OpenedText(DecodeNewlines(saved.fs[dlg].data))
            /\ bold' = {}
            /\ searchTag' = {}
            /\ insert' = Len(text')
            /\ current_file' = dlg
            /\ lastRet' = done
       ELSE /\ current_file' = saved.cf
            /\ lastRet' = fail
            /\ UNCHANGED docVars
    /\ UNCHANGED <<impl, linesep, exited>>
    /\ UNCHANGED notFile

\* new_file: the save prompt, then the buffer is emptied
new_file(yes, sdlg, wr) ==
    LET saved == IF has_content /\ yes THEN SaveFileResult(fs, sdlg, wr)
                 ELSE [cf |-> current_file, fs |-> fs, ret |-> "None"]
    IN
    /\ ~exited
    /\ (~has_content => ~yes)
    /\ (~(has_content /\ yes /\ current_file = NoFile) => sdlg = Cancel)
    /\ (~(has_content /\ yes) => wr = "ok")
    /\ fs' = saved.fs
    /\ text' = <<>> /\ bold' = {} /\ searchTag' = {} /\ insert' = 0
    /\ current_file' = NoFile
    /\ lastOp' = "new_file"
    /\ lastRet' = IF impl = "FileOperations" THEN "True" ELSE "None"
    /\ lastDlg' = Cancel
    /\ UNCHANGED <<impl, linesep, exited>>
    /\ UNCHANGED notFile

\* exit_app: the save prompt, then root.quit() whatever save_file returned;
\* the buffer is gone with the window
exit_app(yes, sdlg, wr) ==
    LET saved == IF has_content /\ yes THEN SaveFileResult(fs, sdlg, wr)
                 ELSE [cf |-> current_file, fs |-> fs, ret |-> "None"]
    IN
    /\ ~exited
    /\ (~has_content => ~yes)
    /\ (~(has_content /\ yes /\ current_file = NoFile) => sdlg = Cancel)
    /\ (~(has_content /\ yes) => wr = "ok")
    /\ fs' = saved.fs
    /\ current_file' = saved.cf
    /\ exited' = TRUE
    /\ lastOp' = "exit_app" /\ lastRet' = "None" /\ lastDlg' = Cancel
    /\ UNCHANGED <<docVars, impl, linesep>>
    /\ UNCHANGED notFile

InitDoc == text = <<>> /\ bold = {} /\ insert = 0 /\ searchTag = {}

\* the settings store while another subsystem is looked at
IdleSettings ==
    /\ config = [kind |-> "absent", doc |-> [p \in {} |-> <<>>]]
    /\ settings = [p \in {} |-> <<>>]
    /\ lastArg = <<<<>>, <<>>>>

\* find / replace while another subsystem is looked at
IdleSearch ==
    /\ srchImpl = "TextSearcher" /\ srchText = <<>> /\ srchRepl = <<>>
    /\ srchCase = FALSE /\ raPc = "idle" /\ raCount = 0 /\ raOcc = 0

\* no call of transcribe_with_openai yet
NoTx == [outcome |-> "none", value |-> "", posts |-> 0, keyed |-> FALSE,
         size |-> "none", net |-> "none"]

\* AudioRecorder.__init__ / SystemAudioCapture.__init__
InitRecording ==
    /\ is_recording = FALSE /\ is_paused = FALSE
    /\ audio_frames = 0 /\ audio_queue = 0
    /\ recording_thread = 0
    /\ thr = <<>> /\ proc = "none" /\ chunk = 0
    /\ keys = {} /\ stopPc = "idle" /\ stopped = FALSE
    /\ temp_files = 0 /\ delivered = ""
    /\ tx = NoTx

\* the audio subsystem while another subsystem is looked at
IdleAudio == InitRecording /\ audObj = "AudioRecorder" /\ continuous_mode = FALSE

\* TextHandler.__init__
InitHandler ==
    /\ block_width = 300
    /\ text_blocks = <<>>
    /\ current_text_item = 0 /\ current_text = <<>> /\ insertion_index = 0
    /\ canvas_items = 0 /\ char = ""

\* the parts of the program that are not the document, the settings, the
\* search or the audio subsystem, while one of these is looked at
\* no hotkey looked at
IdleShortcuts == hotkeys = <<>> /\ saves = 0 /\ pressed = "" /\ triggered = {}

\* the threads a start method is called on: the listener thread of the
\* keyboard library (hotkey callbacks) and the Tk main loop (toolbar button)
Callers == {"hotkey", "toolbar"}
\* no start method is being executed
IdleCalls == calls = [c \in Callers |-> "idle"]

\* the two recorder objects TextEditorApp.__init__ creates
AppRecorders == {"system_audio_capture", "audio_recorder"}
\* both recorders as constructed, the shortcut key up
InitApp ==
    /\ recs = [o \in AppRecorders |-> [is_recording |-> FALSE, audio_frames |-> 0,
                                       pc |-> "none"]]
    /\ held = FALSE /\ holds = 0 /\ started = 0 /\ requests = 0 /\ inserted = 0

\* SelectionHandler.__init__: nothing selected, no drag; no block stored
InitSelection ==
    /\ selected_blocks = <<>> /\ is_moving_blocks = FALSE
    /\ move_start_x = 0 /\ move_start_y = 0
    /\ drag_origin = <<0, 0>> /\ drag_last = <<0, 0>> /\ drag_pure = FALSE
IdleSelection == InitSelection /\ block_xy = <<>> /\ drag_from = <<>>

IdleRest == InitHandler /\ IdleShortcuts /\ IdleCalls /\ InitApp /\ IdleSelection

InitFile ==
    /\ InitDoc /\ IdleSettings /\ IdleSearch /\ IdleAudio /\ IdleRest
    /\ impl \in Impls
    /\ linesep \in LineSeps
    /\ current_file = NoFile
    /\ fs = InitFs
    /\ lastOp = "init" /\ lastRet = "None" /\ lastDlg = Cancel /\ exited = FALSE

NextFile ==
    \/ \E c \in TypedChars : TypeChar(c)
    \/ \E i \in 0..MaxLen, j \in 1..MaxLen : toggle_bold(i, j)
    \/ \E dlg \in DialogAnswers, wr \in WriteOutcomes : save_file(dlg, wr)
    \/ \E dlg \in DialogAnswers, wr \in WriteOutcomes : save_file_as(dlg, wr)
    \/ \E yes \in BOOLEAN, sdlg \in DialogAnswers, wr \in WriteOutcomes,
          dlg \in DialogAnswers : open_file(yes, sdlg, wr, dlg)
    \/ \E yes \in BOOLEAN, sdlg \in DialogAnswers, wr \in WriteOutcomes :
          new_file(yes, sdlg, wr)
    \/ \E yes \in BOOLEAN, sdlg \in DialogAnswers, wr \in WriteOutcomes :
          exit_app(yes, sdlg, wr)

SpecFile == InitFile /\ [][NextFile]_vars

----------------------------------------------------------------------------
(* The settings store (config/settings.py) *)

\* Python values, as <<type, repr>>; a dict is a node whose entries are the
\* paths below it
Str(x) == <<"str", x>>
PyTrue == <<"bool", "True">>
PyFalse == <<"bool", "False">>
PyInt(x) == <<"int", x>>
PyNone == <<"NoneType", "None">>
PyDict == <<"dict", "{}">>

\* a mutant of DumpValue: a bool (a subclass of int) is written as a number
DumpValueBoolAsInt(v) ==
    CASE v[1] = "str" -> <<"string", v[2]>>
      [] v[1] = "bool" -> <<"number", IF v[2] = "True" THEN "1" ELSE "0">>
      [] v[1] = "int" -> <<"number", v[2]>>
      [] v[1] = "NoneType" -> <<"literal", "null">>
      [] v[1] = "dict" -> <<"object", "{}">>

\* json.dump of one value: the JSON token written for it
DumpValue(v) ==
    CASE v[1] = "str" -> <<"string", v[2]>>
      [] v[1] = "bool" -> <<"literal", IF v[2] = "True" THEN "true" ELSE "false">>
      [] v[1] = "int" -> <<"number", v[2]>>
      [] v[1] = "NoneType" -> <<"literal", "null">>
      [] v[1] = "dict" -> <<"object", "{}">>

\* json.load of one token: the Python value it is read as
LoadValue(j) ==
    CASE j[1] = "string" -> <<"str", j[2]>>
      [] j[1] = "literal" /\ j[2] = "null" -> <<"NoneType", "None">>
      [] j[1] = "literal" -> <<"bool", IF j[2] = "true" THEN "True" ELSE "False">>
      [] j[1] = "number" -> <<"int", j[2]>>
      [] j[1] = "object" -> <<"dict", "{}">>

Dump(obj) == [p \in DOMAIN obj |-> DumpValue(obj[p])]
Load(doc) == [p \in DOMAIN doc |-> LoadValue(doc[p])]

EmptyObject == [p \in {} |-> PyNone]

\* get_default_settings
get_default_settings ==
    [p \in {<<"api_key">>, <<"shortcuts">>, <<"system_audio">>, <<"theme">>,
            <<"shortcuts", "transcribe">>, <<"shortcuts", "system_audio">>,
            <<"shortcuts", "cut">>, <<"shortcuts", "copy">>, <<"shortcuts", "paste">>,
            <<"shortcuts", "save">>, <<"shortcuts", "open">>, <<"shortcuts", "new">>} |->
        CASE p = <<"api_key">> -> Str("")
          [] p = <<"shortcuts">> -> PyDict
          [] p = <<"system_audio">> -> PyFalse
          [] p = <<"theme">> -> Str("light")
          [] p = <<"shortcuts", "transcribe">> -> Str("f9")
          [] p = <<"shortcuts", "system_audio">> -> Str("f10")
          [] p = <<"shortcuts", "cut">> -> Str("ctrl+x")
          [] p = <<"shortcuts", "copy">> -> Str("ctrl+c")
          [] p = <<"shortcuts", "paste">> -> Str("ctrl+v")
          [] p = <<"shortcuts", "save">> -> Str("ctrl+s")
          [] p = <<"shortcuts", "open">> -> Str("ctrl+o")
          [] p = <<"shortcuts", "new">> -> Str("ctrl+n")]

NoConfig == [kind |-> "absent", doc |-> EmptyObject]
CorruptConfig == [kind |-> "corrupt", doc |-> EmptyObject]
JsonConfig(d) == [kind |-> "json", doc |-> d]

\* load_settings: the object of the config file, the defaults when the file
\* does not exist or cannot be parsed
load_settings ==
    IF config.kind = "json" THEN Load(config.doc) ELSE get_default_settings

\* get_setting(key, default)
get_setting(obj, key, default) == IF <<key>> \in DOMAIN obj THEN obj[<<key>>] ELSE default

\* get_api_key
get_api_key == get_setting(settings, "api_key", Str(""))

\* save_settings writing object obj: when open(config_file, 'w') fails the
\* file is as it was; a failing json.dump leaves a partial file behind
SaveSettingsResult(obj, wr) ==
    CASE wr = "ok" -> [config |-> JsonConfig(Dump(obj)), ret |-> "True"]
      [] wr = "open_error" -> [config |-> config, ret |-> "False"]
      [] wr = "io_error" -> [config |-> CorruptConfig, ret |-> "False"]

\* the (key, value) pairs the program calls update_setting with
SettingUpdates ==
    {<<"system_audio", PyTrue>>, <<"chunk_duration", PyInt("10")>>}
ShortcutUpdates == {<<"transcribe", "f8">>}
ApiKeys == {"", "sk-1"}

\* the object after self.settings[key] = value
WithSetting(obj, key, value) ==
    [p \in DOMAIN obj \cup {<<key>>} |-> IF p = <<key>> THEN value ELSE obj[p]]

\* the object after update_shortcut's two assignments
WithShortcut(obj, action, combo) ==
    [p \in DOMAIN obj \cup {<<"shortcuts">>, <<"shortcuts", action>>} |->
        IF p = <<"shortcuts", action>> THEN Str(combo)
        ELSE IF p \in DOMAIN obj THEN obj[p] ELSE PyDict]

update_setting(key, value, wr) ==
    LET obj == WithSetting(settings, key, value)
        r == SaveSettingsResult(obj, wr) IN
    /\ settings' = obj
    /\ config' = r.config
    /\ lastArg' = <<<<key>>, value>>
    /\ lastOp' = "update_setting" /\ lastRet' = r.ret
    /\ UNCHANGED notSettings

update_shortcut(action, combo, wr) ==
    LET obj == WithShortcut(settings, action, combo)
        r == SaveSettingsResult(obj, wr) IN
    /\ settings' = obj
    /\ config' = r.config
    /\ lastArg' = <<<<"shortcuts", action>>, Str(combo)>>
    /\ lastOp' = "update_shortcut" /\ lastRet' = r.ret
    /\ UNCHANGED notSettings

set_api_key(key, wr) ==
    LET obj == WithSetting(settings, "api_key", Str(key))
        r == SaveSettingsResult(obj, wr) IN
    /\ settings' = obj
    /\ config' = r.config
    /\ lastArg' = <<<<"api_key">>, Str(key)>>
    /\ lastOp' = "set_api_key" /\ lastRet' = r.ret
    /\ UNCHANGED notSettings

\* the next launch: SettingsManager.__init__ loads the settings again
Relaunch ==
    /\ settings' = load_settings
    /\ lastArg' = <<<<>>, PyNone>>
    /\ lastOp' = "load_settings" /\ lastRet' = "None"
    /\ UNCHANGED <<config, notSettings>>

\* config files found at the first launch: none, one that is not JSON, the
\* defaults, and an object written by hand without shortcuts
InitConfigs ==
    {NoConfig, CorruptConfig, JsonConfig(Dump(get_default_settings)),
     JsonConfig([p \in {<<"api_key">>} |-> <<"string", "sk-1">>])}

\* the file subsystem while another subsystem is looked at
IdleFile ==
    /\ impl = "FileOperations" /\ linesep = <<"LF">>
    /\ current_file = NoFile /\ fs = InitFs /\ lastDlg = Cancel /\ exited = FALSE

InitSettings ==
    /\ InitDoc /\ IdleFile /\ IdleSearch /\ IdleAudio /\ IdleRest
    /\ config \in InitConfigs
    /\ settings = load_settings
    /\ lastArg = <<<<>>, PyNone>>
    /\ lastOp = "init" /\ lastRet = "None"

NextSettings ==
    \/ \E u \in SettingUpdates, wr \in WriteOutcomes : update_setting(u[1], u[2], wr)
    \/ \E u \in ShortcutUpdates, wr \in WriteOutcomes : update_shortcut(u[1], u[2], wr)
    \/ \E k \in ApiKeys, wr \in WriteOutcomes : set_api_key(k, wr)
    \/ Relaunch

SpecSettings == InitSettings /\ [][NextSettings]_vars

\* C2: after update_setting, update_shortcut or set_api_key returned True, the
\* JSON object stored in the config file is the dump of the in-memory
\* settings, loading it again (load_settings, as on the next launch) gives
\* that same object, and the reloaded object holds the value just set under
\* the key just set.
C2_ConfigFileEqualsSettings ==
    (lastOp \in {"update_setting", "update_shortcut", "set_api_key"} /\ lastRet = "True") =>
        /\ config = JsonConfig(Dump(settings))
        /\ load_settings = settings
        /\ lastArg[1] \in DOMAIN load_settings
        /\ load_settings[lastArg[1]] = lastArg[2]

\* a boolean and a shortcut were stored over a config file that had no
\* shortcuts object
C2_Witness ==
    /\ lastOp = "update_setting" /\ lastRet = "True"
    /\ lastArg = <<<<"system_audio">>, PyTrue>>
    /\ <<"shortcuts", "transcribe">> \in DOMAIN settings
    /\ <<"shortcuts", "cut">> \notin DOMAIN settings

----------------------------------------------------------------------------
(* Claims about the file operations, checked under SpecFile *)

\* C1: after save_file (directly, or through the save_file_as it delegates to)
\* returned True, the file at current_file holds exactly the characters of the
\* buffer as plain text (each newline written as os.linesep, so that reading
\* the file as text gives the buffer back), and nothing of the tags: the
\* saved file is a function of the text alone.
C1_SavedFileIsBufferText ==
    (lastOp \in {"save_file", "save_file_as"} /\ lastRet = "True") =>
        /\ current_file \in Paths
        /\ fs[current_file] = PlainFile(EncodeNewlines(text, linesep))
        /\ DecodeNewlines(fs[current_file].data) = text

\* a tagged buffer with a newline in it was saved on a platform whose line
\* separator is not "\n"
C1_Witness ==
    /\ lastOp = "save_file" /\ lastRet = "True"
    /\ bold # {} /\ bold # 1..Len(text)
    /\ \E i \in 1..Len(text) : text[i] = "LF"
    /\ linesep = <<"CR", "LF">>

\* the open dialog of the last open_file was cancelled, or the chosen file
\* could not be read
OpenFailed == lastDlg = Cancel \/ fs[lastDlg].kind # "file"

\* C9 as claimed: open_file returns True only after replacing the buffer with
\* exactly the content of the chosen file and setting current_file to its
\* path; when the dialog is cancelled or the file cannot be read it does not
\* return True and leaves the text buffer and current_file unchanged.
C9_FailedOpenChangesNothing ==
    [][lastOp' = "open_file" =>
         /\ (lastRet' = "True" =>
                /\ lastDlg' \in Paths /\ current_file' = lastDlg'
                /\ text' = DecodeNewlines(fs'[lastDlg'].data))
         /\ (OpenFailed' =>
                /\ lastRet' # "True"
                /\ text' = text
                /\ current_file' = current_file)]_vars

\* C9 as amended: a failed open_file leaves the buffer unchanged, and leaves
\* current_file unchanged unless the document had content and no file: then
\* the save offered by the prompt may have set current_file to the path chosen
\* in the save-as dialog. FileOperations.open_file returns True on success and
\* False on failure, ModernTextEditor.open_file returns None in both cases.
C9_FailedOpenKeepsBuffer ==
    [][lastOp' = "open_file" =>
         /\ (~OpenFailed' =>
                /\ lastRet' = (IF impl = "FileOperations" THEN "True" ELSE "None")
                /\ current_file' = lastDlg'
                /\ text' = DecodeNewlines(fs'[lastDlg'].data))
         /\ (OpenFailed' =>
                /\ lastRet' = (IF impl = "FileOperations" THEN "False" ELSE "None")
                /\ text' = text /\ bold' = bold
                /\ \/ current_file' = current_file
                   \/ current_file = NoFile /\ has_content /\ current_file' \in Paths)]_vars

\* an open_file whose dialog was cancelled, on a document with content, and
\* one that replaced a buffer with content
C9_Witness ==
    /\ lastOp = "open_file" /\ text # <<>>
    /\ \/ lastRet = "False" /\ lastDlg = Cancel /\ current_file \in Paths
       \/ lastRet = "True" /\ current_file = "p2" /\ fs["p2"].data # <<>>

----------------------------------------------------------------------------
(* Find and replace (text/search.py, text/formatter.py, editor.py) *)

\* longest document and longest search text the search is tried on
MaxDocLen == 2
MaxPatLen == 2
\* iterations of replace_all's loop that are followed
MaxIter == 3

DocChars == {"a", "A", "b"}
PatChars == {"a", "b"}
SearchImpls == {"TextSearcher", "TextFormatter", "ModernTextEditor"}

SeqsUpTo(S, n) == UNION {[1..k -> S] : k \in 0..n}
Docs == SeqsUpTo(DocChars, MaxDocLen)
SearchTexts == SeqsUpTo(PatChars, MaxPatLen)
ReplaceTexts == {<<>>, <<"a">>, <<"A">>, <<"b">>, <<"a", "a">>, <<"b", "a">>}

\* -nocase compares the characters without their case
Lower(c) == IF c = "A" THEN "a" ELSE c
SameChar(c, d, nocase) == IF nocase THEN Lower(c) = Lower(d) ELSE c = d

\* pat matches t at offset i (the characters i+1 .. i+Len(pat))
MatchAt(t, i, pat, nocase) ==
    /\ i + Len(pat) <= Len(t)
    /\ \A k \in 1..Len(pat) : SameChar(t[i + k], pat[k], nocase)

\* a mutant of TkSearch, as with -strictlimits: the whole match must lie
\* before the stop index
TkSearchStrict(t, pat, start, stop, nocase) ==
    LET hits == {i \in start..(stop - 1) :
                    MatchAt(t, i, pat, nocase) /\ i + Len(pat) <= stop} IN
    IF hits = {} THEN -1 ELSE CHOOSE i \in hits : \A j \in hits : i <= j

\* text_widget.search(pat, start, stopindex=stop): the offset of the first
\* match that starts at or after start and before stop, -1 for ""
TkSearch(t, pat, start, stop, nocase) ==
    LET hits == {i \in start..(stop - 1) : MatchAt(t, i, pat, nocase)} IN
    IF hits = {} THEN -1 ELSE CHOOSE i \in hits : \A j \in hits : i <= j

\* tk.END as a stop index: behind every character
EndIndex(t) == Len(t) + 1

\* the two searches of find_text from the cursor at offset start: to the end,
\* then from the beginning to the cursor (TextSearcher skips the second one
\* when the cursor is at "1.0")
FindPos(t, pat, start, nocase) ==
    LET first == TkSearch(t, pat, start, EndIndex(t), nocase) IN
    IF first # -1 THEN first
    ELSE IF srchImpl = "TextSearcher" /\ start = 0 THEN -1
    ELSE TkSearch(t, pat, 0, start, nocase)

\* what find_text returns
FoundValue == IF srchImpl = "TextFormatter" THEN "position" ELSE "True"
NotFoundValue == "False"
EmptySearchValue == IF srchImpl = "ModernTextEditor" THEN "None" ELSE "False"
Truthy == {"True", "position"}

\* find_text(search_text, case_sensitive) from the cursor
find_text(pat, cs) ==
    LET pos == FindPos(text, pat, insert, ~cs) IN
    /\ raPc # "loop"
    /\ srchText' = pat /\ srchCase' = cs
    /\ lastOp' = "find_text"
    /\ IF pat = <<>>
       THEN /\ searchTag' = {}
            /\ lastRet' = EmptySearchValue
            /\ UNCHANGED insert
       ELSE IF pos # -1
       THEN /\ searchTag' = (pos + 1)..(pos + Len(pat))
            /\ insert' = pos + Len(pat)
            /\ lastRet' = FoundValue
       ELSE /\ searchTag' = {}
            /\ lastRet' = NotFoundValue
            /\ UNCHANGED insert
    /\ srchRepl' = <<>> /\ raPc' = "idle" /\ raCount' = 0 /\ raOcc' = 0
    /\ UNCHANGED <<text, bold, srchImpl>>
    /\ UNCHANGED notSearch

\* the user clicks into the text: the cursor moves to offset i
MoveCursor(i) ==
    /\ raPc # "loop"
    /\ i \in 0..Len(text) /\ i # insert
    /\ insert' = i
    /\ lastOp' = "click" /\ lastRet' = "None"
    /\ srchText' = <<>> /\ srchRepl' = <<>> /\ srchCase' = FALSE
    /\ raPc' = "idle" /\ raCount' = 0 /\ raOcc' = 0
    /\ UNCHANGED <<text, bold, searchTag, srchImpl>>
    /\ UNCHANGED notSearch

\* the occurrences of pat in t, counted from the left without overlap
RECURSIVE CountOccurrences(_, _, _, _)
CountOccurrences(t, pat, from, nocase) ==
    LET pos == TkSearch(t, pat, from, EndIndex(t), nocase) IN
    IF pat = <<>> \/ pos = -1 THEN 0
    ELSE 1 + CountOccurrences(t, pat, pos + Len(pat), nocase)

\* replace_all is called: the cursor is set to "1.0" and the loop is entered
\* (TextFormatter.replace_all returns 0 at once for an empty search text)
replace_all_call(pat, rep, cs) ==
    /\ raPc # "loop"
    /\ Len(text) <= MaxDocLen
    /\ srchText' = pat /\ srchRepl' = rep /\ srchCase' = cs
    /\ raOcc' = CountOccurrences(text, pat, 0, ~cs)
    /\ raCount' = 0
    /\ lastOp' = "replace_all"
    /\ IF srchImpl = "TextFormatter" /\ pat = <<>>
       THEN raPc' = "done" /\ lastRet' = "count" /\ UNCHANGED insert
       ELSE raPc' = "loop" /\ lastRet' = "running" /\ insert' = 0
    /\ UNCHANGED <<text, bold, searchTag, srchImpl>>
    /\ UNCHANGED notSearch

\* one pass of replace_all's while True: find_text from the cursor, and when
\* it found something the highlighted range is deleted, replace_text is
\* inserted in its place and the cursor is put behind it
replace_all_pass ==
    LET pos == IF srchText = <<>> THEN -1
               ELSE FindPos(text, srchText, insert, ~srchCase)
        n == Len(srchText)
        m == Len(srchRepl)
    IN
    /\ raPc = "loop"
    /\ raCount < MaxIter
    /\ searchTag' = {}
    /\ IF pos = -1
       THEN /\ raPc' = "done"
            /\ lastRet' = IF srchImpl = "ModernTextEditor" THEN "None" ELSE "count"
            /\ UNCHANGED <<text, bold, insert, raCount>>
       ELSE /\ text' = InsertAt(RemoveRange(text, pos, pos + n), pos, srchRepl)
            /\ bold' = TagAfterInsert(TagAfterDelete(bold, pos, pos + n), pos, m)
            /\ insert' = pos + m
            /\ raCount' = raCount + 1
            /\ UNCHANGED <<raPc, lastRet>>
    /\ UNCHANGED <<srchImpl, srchText, srchRepl, srchCase, raOcc, lastOp>>
    /\ UNCHANGED notSearch

InitSearch ==
    /\ IdleFile /\ IdleSettings /\ IdleAudio /\ IdleRest
    /\ text \in Docs /\ bold = {} /\ searchTag = {}
    /\ insert \in 0..Len(text)
    /\ srchImpl \in SearchImpls
    /\ srchText = <<>> /\ srchRepl = <<>> /\ srchCase = FALSE
    /\ raPc = "idle" /\ raCount = 0 /\ raOcc = 0
    /\ lastOp = "init" /\ lastRet = "None"

NextSearch ==
    \/ \E pat \in SearchTexts, cs \in BOOLEAN : find_text(pat, cs)
    \/ \E i \in 0..MaxDocLen : MoveCursor(i)
    \/ \E pat \in SearchTexts, rep \in ReplaceTexts, cs \in BOOLEAN :
          replace_all_call(pat, rep, cs)
    \/ replace_all_pass

SpecSearch == InitSearch /\ [][NextSearch]_vars

\* search_text occurs in the document, under the case rule of the call
Occurs(t, pat, nocase) == \E i \in 0..Len(t) : MatchAt(t, i, pat, nocase)

\* C7 as claimed: replace_all terminates and returns the number of
\* replacements made, which is the number of non-overlapping occurrences of
\* search_text in the document when it was called: so the loop never makes
\* more replacements than there were occurrences, and when it has ended the
\* count is that number.
C7_ReplaceAllCountIsOccurrences ==
    /\ (raPc = "loop" => raCount <= raOcc)
    /\ (raPc = "done" => raCount = raOcc)

\* C8: find_text with a non-empty search_text reports 'found' exactly when
\* search_text occurs somewhere in the document (under the case rule asked
\* for), whatever the cursor position; on success exactly one range carries
\* the 'search' tag, it is an occurrence of search_text, and the cursor is at
\* its end; with an empty search_text nothing is found (False from
\* TextSearcher and TextFormatter) and no range is highlighted.
C8_FindTextFindsAnyOccurrence ==
    lastOp = "find_text" =>
        IF srchText = <<>>
        THEN /\ lastRet \notin Truthy
             /\ (srchImpl # "ModernTextEditor" => lastRet = "False")
             /\ searchTag = {}
        ELSE /\ (lastRet \in Truthy <=> Occurs(text, srchText, ~srchCase))
             /\ (lastRet \in Truthy =>
                    \E i \in 0..Len(text) :
                        /\ MatchAt(text, i, srchText, ~srchCase)
                        /\ searchTag = (i + 1)..(i + Len(srchText))
                        /\ insert = i + Len(srchText))

\* a search without regard to case found its only occurrence, which starts
\* at the beginning of the document, with two characters highlighted
C8_Witness ==
    /\ lastOp = "find_text" /\ lastRet \in Truthy
    /\ srchText = <<"a", "b">> /\ srchCase = FALSE
    /\ text = <<"A", "b">> /\ searchTag = {1, 2} /\ insert = 2

----------------------------------------------------------------------------
(* Audio: TranscriptionService, AudioRecorder and SystemAudioCapture.        *)
(* The recording threads, the sounddevice callback and the caller of the     *)
(* public methods run concurrently; each line of a thread that reads or      *)
(* writes a shared attribute is a step of its own where another thread can   *)
(* change the attribute in between.                                          *)

\* the threads started in one behaviour
MaxStarts == 2
\* the blocks of audio audio_frames holds
MaxFrames == 2
\* the blocks of audio audio_queue holds, and a chunk of the continuous mode
MaxQueue == 1

AudioObjects == {"AudioRecorder", "SystemAudioCapture"}
HotKeys == {"f9", "f10"}
\* the answers of the transcription endpoint
OkResponses == {"ok_text", "ok_blank", "ok_not_json"}
ErrorStatuses == {"status_401"}
NetOutcomes == OkResponses \cup ErrorStatuses \cup {"network_error"}
\* the audio files handed over: 0 bytes, fewer than 44 bytes, a WAV file
FileSizes == {"empty", "short", "wav"}

\* `not value` of a setting
Falsy(v) == v \in {Str(""), PyNone}

\* the result of one call of transcribe_with_openai
TxResult(outcome, value, posts, size, net) ==
    [outcome |-> outcome, value |-> value, posts |-> posts,
     keyed |-> ~Falsy(get_api_key), size |-> size, net |-> net]

\* a mutant of transcribe_with_openai: a response that is not 200 is answered
\* by a second request
TranscribeWithRetry(size, net) ==
    IF Falsy(get_api_key) THEN TxResult("raised", "", 0, size, "none")
    ELSE IF size # "wav" THEN TxResult("raised", "", 0, size, "none")
    ELSE IF net \in ErrorStatuses THEN TxResult("returned", "hello", 2, size, net)
    ELSE IF net = "network_error" THEN TxResult("raised", "", 1, size, net)
    ELSE TxResult("returned", IF net = "ok_text" THEN "hello" ELSE "", 1, size, net)

\* transcribe_with_openai(audio_file): ValueError without an API key, for an
\* empty or too small file, for a status other than 200 and for a
\* requests.RequestException; else the stripped text of the one response
transcribe_with_openai(size, net) ==
    IF Falsy(get_api_key) THEN TxResult("raised", "", 0, size, "none")
    ELSE IF size # "wav" THEN TxResult("raised", "", 0, size, "none")
    ELSE IF net \in ErrorStatuses THEN TxResult("raised", "", 1, size, net)
    ELSE IF net = "network_error" THEN TxResult("raised", "", 1, size, net)
    ELSE TxResult("returned",
                  CASE net = "ok_text" -> "hello"
                    [] net = "ok_blank" -> ""
                    [] net = "ok_not_json" -> "raw",
                  1, size, net)

\* the frames written to a temporary WAV file and transcribed, as
\* transcribe_audio, process_system_audio, _process_audio and _process_chunk
\* do it: the transcript goes to the callback, the file is unlinked unless an
\* exception skipped the clean-up; silent audio (SystemAudioCapture) is dropped
TranscribeFrames(net, silent) ==
    IF silent THEN [tx |-> NoTx, temp_files |-> 0, delivered |-> ""]
    ELSE LET r == transcribe_with_openai("wav", net) IN
         [tx |-> r,
          temp_files |-> IF r.outcome = "raised" THEN 1 ELSE 0,
          delivered |-> IF r.outcome = "returned" /\ r.value # "" THEN r.value ELSE ""]

\* a call of transcribe_with_openai from outside the recorders (its result
\* depends on its argument and on the API key only, so it is made before any
\* recording)
transcribe_call(size, net) ==
    /\ thr = <<>>
    /\ tx' = transcribe_with_openai(size, net)
    /\ lastOp' = "transcribe_with_openai"
    /\ lastRet' = IF tx'.outcome = "returned" THEN "text" ELSE "raised"
    /\ delivered' = "" /\ temp_files' = 0
    /\ UNCHANGED <<notAudio, settings, audObj, is_recording, is_paused, audio_frames,
                   audio_queue, continuous_mode, recording_thread, thr, proc, chunk, keys,
                   stopPc, stopped>>

\* a step that neither calls transcribe_with_openai nor the text callback
NoCall == tx' = NoTx /\ delivered' = ""
Quiet == temp_files' = 0 /\ NoCall

\* threading.Thread(target = ...).start()
NewThread(kind) == [kind |-> kind, pc |-> "opening", cb |-> "idle"]

\* a thread function that has returned
Ended == [kind |-> "none", pc |-> "dead", cb |-> "idle"]
Finish(t) == IF t.pc = "dead" THEN Ended ELSE t

\* the key a recording thread polls with keyboard.is_pressed
ShortcutKey(action) == settings[<<"shortcuts", action>>][2]
WatchedKey(kind) ==
    CASE kind = "mic" -> ShortcutKey("transcribe")
      [] kind \in {"sys", "cap_key"} -> ShortcutKey("system_audio")
      [] OTHER -> "none"

\* the keys the threads of the object poll
WatchedKeys ==
    IF audObj = "AudioRecorder" THEN {WatchedKey("mic"), WatchedKey("sys")}
    ELSE {WatchedKey("cap_key")}

\* recording_thread.is_alive()
IsAlive(t) ==
    IF t.kind \in {"mic", "cap_key", "cap_timed"}
    THEN t.pc \in {"opening", "loop", "process"}
    ELSE t.pc \in {"opening", "loop"}

StartOps == {"start_capture", "start_microphone_transcription",
             "start_system_audio_capture"}
\* start_capture(shortcut_key = key) and start_capture(duration = d), where a
\* duration of None is a time limit that never elapses
CaptureKinds == {"cap_key", "cap_timed"}

\* a mutant of CanStart: a recording in progress does not refuse the start
CanStartWhileRecording == ~Falsy(get_api_key)

\* the two checks every start method makes before it starts anything
CanStart == ~Falsy(get_api_key) /\ ~is_recording

\* the common body of the three start methods.  start_capture in continuous
\* mode also starts a thread of _process_continuous_audio; one started while
\* another still runs takes frames from the same queue, and the two are
\* followed as one
StartRecording(op, kind, resetPaused, withProcessing) ==
    /\ stopPc = "idle"
    /\ lastOp' = op
    /\ IF CanStart
       THEN /\ Len(thr) < MaxStarts
            /\ is_recording' = TRUE
            /\ is_paused' = (IF resetPaused THEN FALSE ELSE is_paused)
            /\ audio_frames' = 0
            /\ thr' = Append(thr, NewThread(kind))
            /\ proc' = (IF withProcessing THEN "run" ELSE proc)
            /\ chunk' = (IF withProcessing /\ proc = "none" THEN 0 ELSE chunk)
            /\ recording_thread' = Len(thr) + 1
            /\ stopped' = FALSE
            /\ lastRet' = "True"
       ELSE /\ lastRet' = "False"
            /\ UNCHANGED <<is_recording, is_paused, audio_frames, thr, recording_thread,
                           proc, chunk, stopped>>
    /\ Quiet
    /\ UNCHANGED <<notAudio, settings, audObj, audio_queue, continuous_mode, keys, stopPc>>

start_microphone_transcription ==
    /\ audObj = "AudioRecorder"
    /\ StartRecording("start_microphone_transcription", "mic", FALSE, FALSE)

start_system_audio_capture ==
    /\ audObj = "AudioRecorder"
    /\ StartRecording("start_system_audio_capture", "sys", FALSE, FALSE)

\* start_capture(shortcut_key, duration)
start_capture(kind) ==
    /\ audObj = "SystemAudioCapture"
    /\ StartRecording("start_capture", kind, TRUE, continuous_mode)

\* what every step of a thread leaves alone
ThreadFrame == UNCHANGED <<notAudio, settings, audObj, continuous_mode, recording_thread,
                           keys, stopPc>>
RecordingFrame == ThreadFrame /\ UNCHANGED <<proc, chunk>>
ThreadStamp == lastOp' = "step" /\ lastRet' = "None"

\* audio.open / sd.query_devices and sd.InputStream: the stream opens, or the
\* call raises.  record_microphone opens the stream outside its try block, so
\* the exception ends the thread with is_recording still set; the two other
\* thread functions clear the flag in their except block
OpenStream(i, ok) ==
    /\ i \in DOMAIN thr /\ thr[i].pc = "opening"
    /\ IF ok THEN thr' = [thr EXCEPT ![i].pc = "loop"] /\ UNCHANGED is_recording
       ELSE IF thr[i].kind = "mic"
            THEN thr' = [thr EXCEPT ![i].pc = "crashed"] /\ UNCHANGED is_recording
            ELSE thr' = [thr EXCEPT ![i] = Finish([@ EXCEPT !.pc = "dead"])]
                 /\ is_recording' = FALSE
    /\ UNCHANGED <<is_paused, audio_frames, audio_queue, stopped>> /\ Quiet
    /\ RecordingFrame /\ ThreadStamp

\* record_microphone, one pass of the loop with the key held: a chunk is read
\* from the stream and appended
ReadChunk(i) ==
    /\ i \in DOMAIN thr /\ thr[i].pc = "loop" /\ thr[i].kind = "mic"
    /\ WatchedKey("mic") \in keys
    /\ audio_frames < MaxFrames
    /\ audio_frames' = audio_frames + 1
    /\ UNCHANGED <<is_recording, is_paused, audio_queue, stopped, thr>> /\ Quiet
    /\ RecordingFrame /\ ThreadStamp

\* AudioRecorder.audio_callback on the stream of thread i.  The flag it reads
\* is cleared by the recording thread only after the stream is closed
audio_callback(i) ==
    /\ i \in DOMAIN thr /\ thr[i].pc = "loop" /\ thr[i].kind = "sys"
    /\ is_recording /\ audio_frames < MaxFrames
    /\ audio_frames' = audio_frames + 1
    /\ UNCHANGED <<is_recording, is_paused, audio_queue, stopped, thr>> /\ Quiet
    /\ RecordingFrame /\ ThreadStamp

\* SystemAudioCapture._audio_callback, its test of is_recording, is_paused
\* and continuous_mode
_audio_callback_test(i) ==
    /\ i \in DOMAIN thr /\ thr[i].pc = "loop" /\ thr[i].kind \in CaptureKinds
    /\ thr[i].cb = "idle"
    /\ is_recording /\ ~is_paused
    /\ thr' = [thr EXCEPT ![i].cb = IF continuous_mode THEN "put" ELSE "append"]
    /\ UNCHANGED <<is_recording, is_paused, audio_frames, audio_queue, stopped>> /\ Quiet
    /\ RecordingFrame /\ ThreadStamp

\* SystemAudioCapture._audio_callback, its audio_queue.put or
\* audio_frames.append
_audio_callback_add(i) ==
    /\ i \in DOMAIN thr /\ thr[i].cb # "idle"
    /\ thr[i].cb = "put" => audio_queue < MaxQueue
    /\ thr[i].cb = "append" => audio_frames < MaxFrames
    /\ audio_queue' = (IF thr[i].cb = "put" THEN audio_queue + 1 ELSE audio_queue)
    /\ audio_frames' = (IF thr[i].cb = "append" THEN audio_frames + 1 ELSE audio_frames)
    /\ thr' = [thr EXCEPT ![i].cb = "idle"]
    /\ UNCHANGED <<is_recording, is_paused, stopped>> /\ Quiet
    /\ RecordingFrame /\ ThreadStamp

\* the condition under which the recording loop of a thread ends
LoopEnds(t, elapsed) ==
    CASE t.kind \in {"mic", "sys"} -> WatchedKey(t.kind) \notin keys
      [] t.kind = "cap_key" -> WatchedKey(t.kind) \notin keys \/ ~is_recording
      [] t.kind = "cap_timed" -> ~is_recording \/ elapsed

\* the end of the recording loop: the stream is closed (which waits for a
\* callback in progress), is_recording is cleared, and the thread goes on to
\* the transcription when there are frames (and, in SystemAudioCapture, when
\* the mode is not continuous)
LeaveLoop(i, elapsed) ==
    /\ i \in DOMAIN thr /\ thr[i].pc = "loop" /\ thr[i].cb = "idle"
    /\ LoopEnds(thr[i], elapsed)
    /\ is_recording' = FALSE
    /\ thr' = [thr EXCEPT ![i] = Finish([@ EXCEPT !.pc =
                  IF audio_frames > 0 /\ ~(thr[i].kind \in CaptureKinds /\ continuous_mode)
                  THEN "process" ELSE "dead"])]
    /\ UNCHANGED <<is_paused, audio_frames, audio_queue, stopped>> /\ Quiet
    /\ RecordingFrame /\ ThreadStamp

\* transcribe_audio, process_system_audio and _process_audio
ProcessRecording(i, net, silent) ==
    /\ i \in DOMAIN thr /\ thr[i].pc = "process"
    /\ silent => thr[i].kind \in CaptureKinds
    /\ LET r == IF audio_frames = 0 /\ thr[i].kind # "mic"
                THEN TranscribeFrames(net, TRUE) ELSE TranscribeFrames(net, silent) IN
       /\ tx' = r.tx /\ temp_files' = r.temp_files /\ delivered' = r.delivered
    /\ thr' = [thr EXCEPT ![i] = Finish([@ EXCEPT !.pc = "dead"])]
    /\ UNCHANGED <<is_recording, is_paused, audio_frames, audio_queue, stopped>>
    /\ RecordingFrame /\ ThreadStamp

\* _process_continuous_audio, one frame taken from the queue; the chunk is
\* transcribed (_process_chunk) when it is long enough
TakeFrame(full, net, silent) ==
    /\ proc = "run"
    /\ audio_queue > 0
    /\ audio_queue' = audio_queue - 1
    /\ IF full
       THEN LET r == TranscribeFrames(net, silent) IN
            /\ tx' = r.tx /\ temp_files' = r.temp_files /\ delivered' = r.delivered
            /\ chunk' = 0
       ELSE /\ chunk < MaxQueue /\ ~silent /\ net = "ok_text"
            /\ chunk' = chunk + 1
            /\ Quiet
    /\ UNCHANGED <<is_recording, is_paused, audio_frames, stopped, thr, proc>>
    /\ ThreadFrame /\ ThreadStamp

\* _process_continuous_audio, the end of its loop and the last chunk
EndProcessing(net, silent) ==
    /\ proc = "run"
    /\ ~is_recording /\ audio_queue = 0
    /\ LET r == TranscribeFrames(net, silent \/ chunk = 0) IN
       /\ tx' = r.tx /\ temp_files' = r.temp_files /\ delivered' = r.delivered
    /\ proc' = "none" /\ chunk' = 0
    /\ UNCHANGED <<is_recording, is_paused, audio_frames, audio_queue, stopped, thr>>
    /\ ThreadFrame /\ ThreadStamp

\* what a call of a SystemAudioCapture method other than start leaves alone
CallFrame ==
    /\ UNCHANGED <<notAudio, settings, audObj, audio_frames, audio_queue,
                   recording_thread, thr, proc, chunk, keys>>
    /\ Quiet

\* stop_capture up to its recording_thread.join(timeout = 1.0)
stop_capture ==
    /\ audObj = "SystemAudioCapture" /\ stopPc = "idle"
    /\ lastOp' = "stop_capture"
    /\ IF ~is_recording
       THEN lastRet' = "False" /\ UNCHANGED <<is_recording, stopPc, stopped>>
       ELSE /\ is_recording' = FALSE
            /\ IF recording_thread # 0 /\ IsAlive(thr[recording_thread])
               THEN stopPc' = "joining" /\ lastRet' = "running" /\ UNCHANGED stopped
               ELSE stopPc' = "idle" /\ lastRet' = "True" /\ stopped' = TRUE
    /\ UNCHANGED <<is_paused, continuous_mode>>
    /\ CallFrame

\* the join ends because the thread has ended or because the second is over
stop_capture_return(timeout) ==
    /\ stopPc = "joining"
    /\ timeout \/ ~IsAlive(thr[recording_thread])
    /\ stopPc' = "idle" /\ stopped' = TRUE
    /\ lastOp' = "stop_capture" /\ lastRet' = "True"
    /\ UNCHANGED <<is_recording, is_paused, continuous_mode>>
    /\ CallFrame

pause_capture ==
    /\ audObj = "SystemAudioCapture" /\ stopPc = "idle"
    /\ lastOp' = "pause_capture"
    /\ IF ~is_recording \/ is_paused
       THEN lastRet' = "False" /\ UNCHANGED is_paused
       ELSE lastRet' = "True" /\ is_paused' = TRUE
    /\ UNCHANGED <<is_recording, continuous_mode, stopPc, stopped>>
    /\ CallFrame

resume_capture ==
    /\ audObj = "SystemAudioCapture" /\ stopPc = "idle"
    /\ lastOp' = "resume_capture"
    /\ IF ~is_recording \/ ~is_paused
       THEN lastRet' = "False" /\ UNCHANGED is_paused
       ELSE lastRet' = "True" /\ is_paused' = FALSE
    /\ UNCHANGED <<is_recording, continuous_mode, stopPc, stopped>>
    /\ CallFrame

set_continuous_mode(enabled) ==
    /\ audObj = "SystemAudioCapture" /\ stopPc = "idle"
    /\ continuous_mode' = enabled
    /\ lastOp' = "set_continuous_mode" /\ lastRet' = "True"
    /\ UNCHANGED <<is_recording, is_paused, stopPc, stopped>>
    /\ CallFrame

\* the user presses or releases a shortcut key
PressKey(k) ==
    /\ k \notin keys /\ k \in WatchedKeys
    /\ keys' = keys \cup {k}
    /\ ThreadStamp
    /\ UNCHANGED <<notAudio, settings, audObj, is_recording, is_paused, audio_frames,
                   audio_queue, continuous_mode, recording_thread, thr, proc, chunk, stopPc,
                   stopped>>
    /\ Quiet

ReleaseKey(k) ==
    /\ k \in keys
    /\ keys' = keys \ {k}
    /\ ThreadStamp
    /\ UNCHANGED <<notAudio, settings, audObj, is_recording, is_paused, audio_frames,
                   audio_queue, continuous_mode, recording_thread, thr, proc, chunk, stopPc,
                   stopped>>
    /\ Quiet

\* the settings the recorders are constructed with: the defaults, with and
\* without an API key
InitAudioSettings ==
    {get_default_settings, WithSetting(get_default_settings, "api_key", Str("sk-1"))}

InitAudio ==
    /\ InitDoc /\ IdleFile /\ IdleSearch /\ IdleRest
    /\ config = NoConfig /\ lastArg = <<<<>>, PyNone>>
    /\ settings \in InitAudioSettings
    /\ audObj \in AudioObjects
    /\ continuous_mode = FALSE
    /\ InitRecording
    /\ lastOp = "init" /\ lastRet = "None"

NextAudio ==
    \/ start_microphone_transcription
    \/ start_system_audio_capture
    \/ \E kind \in CaptureKinds : start_capture(kind)
    \/ stop_capture
    \/ \E timeout \in BOOLEAN : stop_capture_return(timeout)
    \/ pause_capture
    \/ resume_capture
    \/ \E enabled \in BOOLEAN : set_continuous_mode(enabled)
    \/ \E k \in HotKeys : PressKey(k)
    \/ \E k \in HotKeys : ReleaseKey(k)
    \/ \E i \in 1..MaxStarts, ok \in BOOLEAN : OpenStream(i, ok)
    \/ \E i \in 1..MaxStarts : ReadChunk(i)
    \/ \E i \in 1..MaxStarts : audio_callback(i)
    \/ \E i \in 1..MaxStarts : _audio_callback_test(i)
    \/ \E i \in 1..MaxStarts : _audio_callback_add(i)
    \/ \E i \in 1..MaxStarts, elapsed \in BOOLEAN : LeaveLoop(i, elapsed)
    \/ \E i \in 1..MaxStarts, net \in NetOutcomes, silent \in BOOLEAN :
            ProcessRecording(i, net, silent)
    \/ \E full \in BOOLEAN, net \in NetOutcomes, silent \in BOOLEAN :
            TakeFrame(full, net, silent)
    \/ \E net \in NetOutcomes, silent \in BOOLEAN : EndProcessing(net, silent)
    \/ \E size \in FileSizes, net \in NetOutcomes : transcribe_call(size, net)

SpecAudio == InitAudio /\ [][NextAudio]_vars

\* AudioRecorder alone, with the transcription service it calls
InitRecorder == InitAudio /\ audObj = "AudioRecorder"

NextRecorder ==
    \/ start_microphone_transcription
    \/ start_system_audio_capture
    \/ \E k \in HotKeys : PressKey(k)
    \/ \E k \in HotKeys : ReleaseKey(k)
    \/ \E i \in 1..MaxStarts, ok \in BOOLEAN : OpenStream(i, ok)
    \/ \E i \in 1..MaxStarts : ReadChunk(i)
    \/ \E i \in 1..MaxStarts : audio_callback(i)
    \/ \E i \in 1..MaxStarts, elapsed \in {FALSE} : LeaveLoop(i, elapsed)
    \/ \E i \in 1..MaxStarts, net \in NetOutcomes : ProcessRecording(i, net, FALSE)
    \/ \E size \in FileSizes, net \in NetOutcomes : transcribe_call(size, net)

SpecRecorder == InitRecorder /\ [][NextRecorder]_vars

----------------------------------------------------------------------------
(* Claims about the audio subsystem *)

\* the recorder is idle: no recording in progress, and every thread it
\* started has returned (also the one that transcribes)
RecorderIdle ==
    /\ ~is_recording
    /\ thr # <<>>
    /\ \A i \in DOMAIN thr : thr[i].pc = "dead"

\* C3: in AudioRecorder, whenever a recording has ended and its transcription
\* has finished (with a transcript, without speech or with an error), or the
\* recording was cancelled, audio_frames is empty: no captured audio is
\* retained while the recorder is idle.  (Checked under SpecRecorder.)
C3_IdleRecorderHoldsNoFrames ==
    (audObj = "AudioRecorder" /\ RecorderIdle) => audio_frames = 0

\* the responses and errors that make transcribe_with_openai fail
FailingNet == ErrorStatuses \cup {"network_error"}

\* C4: a call of transcribe_with_openai issues at most one HTTP POST; a
\* response whose status is not 200, and a network error, make the call fail
\* after that one request, and a transcript is only ever returned from the one
\* response with status 200.  (Checked under SpecRecorder.)
C4_OnePostAndStatusCheck ==
    /\ tx.posts <= 1
    /\ tx.net \in FailingNet => (tx.outcome = "raised" /\ tx.posts = 1)
    /\ tx.outcome = "returned" => (tx.posts = 1 /\ tx.net \in OkResponses)

\* a recording was transcribed and the endpoint answered with an error status
C4_Witness ==
    /\ lastOp = "step" /\ RecorderIdle /\ audio_frames > 0
    /\ tx.net \in ErrorStatuses /\ tx.posts = 1 /\ tx.outcome = "raised"

\* the call of transcribe_with_openai just made has failed
TxFailed ==
    /\ tx.outcome # "none"
    /\ ~tx.keyed \/ tx.size \in {"empty", "short"} \/ tx.net \in FailingNet

\* C5: for every failure (API key not configured, empty or too small audio
\* file, response other than 200, network error) transcribe_with_openai
\* returns the empty string to its caller.  (Checked under SpecRecorder.)
C5_FailureReturnsEmptyString ==
    TxFailed => (tx.outcome = "returned" /\ tx.value = "")

\* C6: start_capture, start_microphone_transcription and
\* start_system_audio_capture return True exactly when the API key is set and
\* no recording is in progress, and then a recording has been started
\* (is_recording set, audio_frames emptied, a new recording thread running);
\* otherwise they return False and leave is_recording, is_paused,
\* audio_frames and the recording thread as they were.  (Checked under
\* SpecAudio.)
C6_StartReturnsTrueOnlyWhenStarted ==
    [][lastOp' \in StartOps =>
        /\ lastRet' \in {"True", "False"}
        /\ lastRet' = "True" <=> (~Falsy(get_api_key) /\ ~is_recording)
        /\ lastRet' = "True" =>
            /\ is_recording' /\ audio_frames' = 0
            /\ Len(thr') = Len(thr) + 1
            /\ recording_thread' = Len(thr')
            /\ thr'[recording_thread'].pc = "opening"
            /\ \A i \in DOMAIN thr : thr'[i] = thr[i]
        /\ lastRet' = "False" =>
            UNCHANGED <<is_recording, is_paused, audio_frames, recording_thread, thr>>
      ]_vars

\* start_capture was refused while a paused recording with frames in its
\* buffer was in progress
C6_Witness ==
    /\ lastOp = "start_capture" /\ lastRet = "False"
    /\ is_recording /\ is_paused /\ audio_frames > 0
    /\ recording_thread # 0 /\ thr[recording_thread].pc = "loop"

\* C10 (its safety part): from the moment stop_capture has returned True, and
\* as long as no capture is started again, no frame is added to audio_frames
\* or to audio_queue; and a stop_capture that returns False changes nothing.
\* (Checked under SpecAudio.)
C10_NoFrameAfterStopCapture ==
    [][/\ (stopped /\ stopped') =>
            (audio_frames' = audio_frames /\ audio_queue' <= audio_queue)
       /\ (lastOp' = "stop_capture" /\ lastRet' = "False") =>
            UNCHANGED <<is_recording, is_paused, audio_frames, audio_queue,
                        continuous_mode, recording_thread, thr, proc, chunk>>
      ]_vars

\* what pause_capture and resume_capture read and write
CaptureState == <<is_recording, is_paused, audio_frames, audio_queue, continuous_mode,
                  recording_thread, thr, proc, chunk>>

\* C11: while a capture is paused (pause_capture returned True and neither
\* resume_capture nor a new start_capture has cleared is_paused since),
\* _audio_callback adds no frame to audio_frames or to audio_queue;
\* pause_capture returns False exactly when nothing is recorded or the
\* capture is paused already, resume_capture exactly when nothing is recorded
\* or the capture is not paused, and then nothing changes.  (Checked under
\* SpecAudio.)
C11_PausedCaptureAddsNoFrame ==
    [][/\ (is_paused /\ is_paused') =>
            (audio_frames' = audio_frames /\ audio_queue' <= audio_queue)
       /\ lastOp' = "pause_capture" =>
            /\ lastRet' = "False" <=> (~is_recording \/ is_paused)
            /\ lastRet' = "False" => UNCHANGED CaptureState
       /\ lastOp' = "resume_capture" =>
            /\ lastRet' = "False" <=> (~is_recording \/ ~is_paused)
            /\ lastRet' = "False" => UNCHANGED CaptureState
      ]_vars

\* C12: every temporary WAV file created for a transcription has been
\* deleted by the time the operation that created it ends, whether the
\* transcription succeeded or failed: no step leaves a temporary file on
\* disk.  (Checked under SpecRecorder.)
C12_NoTemporaryFileLeft == temp_files = 0

\* the steps of the threads AudioRecorder starts
RecorderThreads ==
    \/ \E i \in 1..MaxStarts, ok \in BOOLEAN : OpenStream(i, ok)
    \/ \E i \in 1..MaxStarts : ReadChunk(i)
    \/ \E i \in 1..MaxStarts : audio_callback(i)
    \/ \E i \in 1..MaxStarts : LeaveLoop(i, FALSE)
    \/ \E i \in 1..MaxStarts, net \in NetOutcomes : ProcessRecording(i, net, FALSE)

\* AudioRecorder with threads that keep running: a thread that can take a
\* step eventually takes one
SpecRecorderFair == SpecRecorder /\ WF_vars(RecorderThreads)

\* C16: whenever a start method of AudioRecorder has returned True,
\* is_recording becomes False again once the shortcut key is released (also
\* when the audio stream cannot be opened), so that a later start can
\* succeed: a recording in progress with no key held leads to is_recording
\* being False, unless a key is pressed again.  (Checked under
\* SpecRecorderFair.)
C16_RecordingEndsAfterRelease ==
    (is_recording /\ keys = {}) ~> (~is_recording \/ keys # {})

\* the save prompt of a step was answered yes and the save_file it led to
\* returned False
SaveRefused(yes, sdlg, wr) ==
    has_content /\ yes /\ SaveFileResult(fs, sdlg, wr).ret = "False"

\* C17: new_file, open_file and exit_app never discard the current document
\* after the user answered yes to the save prompt unless the save succeeded:
\* a step of one of them in which save_file returned False leaves the buffer
\* as it was and the window open.  (Checked under SpecFile.)
C17_FailedSaveKeepsDocument ==
    [][\A yes \in BOOLEAN, sdlg \in DialogAnswers, wr \in WriteOutcomes :
          (/\ SaveRefused(yes, sdlg, wr)
           /\ \/ new_file(yes, sdlg, wr)
              \/ exit_app(yes, sdlg, wr)
              \/ \E dlg \in DialogAnswers : open_file(yes, sdlg, wr, dlg))
          => (text' = text /\ exited' = exited)
      ]_vars

----------------------------------------------------------------------------
(* TextHandler: text blocks on the canvas (text/handler.py) *)

\* longest text of a block
MaxText == 3
\* most canvas items created
MaxBlocks == 2

\* the characters typed into a block
BlockChars == {"a", " ", "LF"}
\* font_obj.measure: every character of the font advances CharAdvance pixels
CharAdvance == 7
measure(s) == CharAdvance * Len(s)
\* the widths set_block_width is called with
BlockWidths == {14, 300}
Directions == {"Left", "Right", "Up", "Down"}

\* s[:i] and s[i:] of Python, for i >= 0
Take(s, i) == SubSeq(s, 1, IF i < Len(s) THEN i ELSE Len(s))
Drop(s, i) == SubSeq(s, (IF i < Len(s) THEN i ELSE Len(s)) + 1, Len(s))

\* str.split(sep) for a separator of one character
RECURSIVE Split(_, _)
Split(s, sep) ==
    IF \E k \in DOMAIN s : s[k] = sep
    THEN LET k == CHOOSE k \in DOMAIN s : s[k] = sep /\ \A j \in 1..(k - 1) : s[j] # sep
         IN <<SubSeq(s, 1, k - 1)>> \o Split(SubSeq(s, k + 1, Len(s)), sep)
    ELSE <<s>>

\* wrap_text_to_width, the loop over words[1:]
RECURSIVE WrapWords(_, _, _)
WrapWords(words, current_line, width) ==
    IF words = <<>> THEN <<current_line>>
    ELSE LET test_line == current_line \o <<" ">> \o Head(words) IN
         IF measure(test_line) <= width
         THEN WrapWords(Tail(words), test_line, width)
         ELSE <<current_line>> \o WrapWords(Tail(words), Head(words), width)

\* wrap_text_to_width, the loop over the paragraphs
RECURSIVE WrapParagraphs(_, _)
WrapParagraphs(paragraphs, width) ==
    IF paragraphs = <<>> THEN <<>>
    ELSE LET paragraph == Head(paragraphs)
             words == Split(paragraph, " ")
         IN (IF paragraph = <<>> THEN << <<>> >>
             ELSE WrapWords(Tail(words), Head(words), width))
            \o WrapParagraphs(Tail(paragraphs), width)

wrap_text_to_width(t, width) ==
    IF t = <<>> THEN << <<>> >> ELSE WrapParagraphs(Split(t, "LF"), width)

\* find_wrapped_position, from line line_num (counted from 0) on
RECURSIVE FindWrapped(_, _, _, _)
FindWrapped(wrapped_lines, global_index, line_num, current_idx) ==
    IF line_num >= Len(wrapped_lines)
    THEN <<Len(wrapped_lines) - 1, Len(wrapped_lines[Len(wrapped_lines)])>>
    ELSE LET line_end_idx == current_idx + Len(wrapped_lines[line_num + 1]) IN
         IF global_index <= line_end_idx
         THEN <<line_num, global_index - current_idx>>
         ELSE FindWrapped(wrapped_lines, global_index, line_num + 1,
                          IF line_num < Len(wrapped_lines) - 1 THEN line_end_idx + 1
                          ELSE line_end_idx)

find_wrapped_position(wrapped_lines, global_index) ==
    FindWrapped(wrapped_lines, global_index, 0, 0)

\* find_actual_index, the loop for i in range(line_index), from i on
RECURSIVE CountLines(_, _, _)
CountLines(wrapped_lines, line_index, i) ==
    IF i >= line_index THEN 0
    ELSE Len(wrapped_lines[i + 1]) + (IF i < line_index - 1 THEN 1 ELSE 0)
         + CountLines(wrapped_lines, line_index, i + 1)

find_actual_index(wrapped_lines, line_index, char_index) ==
    CountLines(wrapped_lines, line_index, 0) + char_index

\* a mutant of WithChar: the character is put at the end of the text
WithCharAppended(t, i, c) == t \o <<c>>

\* add_character: current_text[:i] + char + current_text[i:]
WithChar(t, i, c) == Take(t, i) \o <<c>> \o Drop(t, i)

\* the loop "for block in self.text_blocks: if block['id'] == ...: block['text'] = ..."
StoreText(blocks, item, t) ==
    IF \E k \in DOMAIN blocks : blocks[k].id = item
    THEN LET k == CHOOSE k \in DOMAIN blocks :
                      blocks[k].id = item /\ \A j \in 1..(k - 1) : blocks[j].id # item
         IN [blocks EXCEPT ![k].text = t]
    ELSE blocks

HandlerFrame == UNCHANGED notHandler

\* create_new_text_block(x, y)
create_new_text_block ==
    /\ canvas_items < MaxBlocks
    /\ canvas_items' = canvas_items + 1
    /\ current_text' = <<>> /\ insertion_index' = 0
    /\ current_text_item' = canvas_items + 1
    /\ text_blocks' = Append(text_blocks, [id |-> canvas_items + 1, text |-> <<>>])
    /\ lastOp' = "create_new_text_block" /\ lastRet' = "position"
    /\ char' = "" /\ UNCHANGED block_width /\ HandlerFrame

\* add_character(c)
add_character(c) ==
    LET fresh == current_text_item = 0
        item == IF fresh THEN canvas_items + 1 ELSE current_text_item
        blocks == IF fresh THEN Append(text_blocks, [id |-> item, text |-> <<>>])
                  ELSE text_blocks
        old == IF fresh THEN <<>> ELSE current_text
        i == IF fresh THEN 0 ELSE insertion_index
    IN
    /\ fresh => canvas_items < MaxBlocks
    /\ Len(old) < MaxText
    /\ canvas_items' = IF fresh THEN item ELSE canvas_items
    /\ current_text_item' = item
    /\ current_text' = WithChar(old, i, c)
    /\ insertion_index' = i + 1
    /\ text_blocks' = StoreText(blocks, item, current_text')
    /\ char' = c
    /\ lastOp' = "add_character" /\ lastRet' = "position"
    /\ UNCHANGED block_width /\ HandlerFrame

\* handle_backspace (the selection indices of TextHandler are always None)
handle_backspace ==
    /\ IF insertion_index <= 0 \/ current_text_item = 0
       THEN /\ lastRet' = "None"
            /\ UNCHANGED <<current_text, insertion_index, text_blocks>>
       ELSE /\ current_text' = Take(current_text, insertion_index - 1)
                                 \o Drop(current_text, insertion_index)
            /\ insertion_index' = insertion_index - 1
            /\ text_blocks' = StoreText(text_blocks, current_text_item, current_text')
            /\ lastRet' = "position"
    /\ lastOp' = "handle_backspace"
    /\ char' = "" /\ UNCHANGED <<block_width, current_text_item, canvas_items>> /\ HandlerFrame

\* delete_selection(start_idx, end_idx)
delete_selection(start_idx, end_idx) ==
    LET start == IF start_idx < end_idx THEN start_idx ELSE end_idx
        end == IF start_idx < end_idx THEN end_idx ELSE start_idx
    IN
    /\ start_idx \in 0..Len(current_text) /\ end_idx \in 0..Len(current_text)
    /\ IF current_text_item = 0
       THEN /\ lastRet' = "None"
            /\ UNCHANGED <<current_text, insertion_index, text_blocks>>
       ELSE /\ current_text' = Take(current_text, start) \o Drop(current_text, end)
            /\ insertion_index' = start
            /\ text_blocks' = StoreText(text_blocks, current_text_item, current_text')
            /\ lastRet' = "position"
    /\ lastOp' = "delete_selection"
    /\ char' = "" /\ UNCHANGED <<block_width, current_text_item, canvas_items>> /\ HandlerFrame

\* move_cursor(direction)
move_cursor(direction) ==
    LET wrapped_lines == wrap_text_to_width(current_text, block_width)
        current_pos == find_wrapped_position(wrapped_lines, insertion_index)
        line_num == current_pos[1]
        char_pos == current_pos[2]
        Clip(line) == IF char_pos < Len(line) THEN char_pos ELSE Len(line)
    IN
    /\ IF current_text_item = 0
       THEN lastRet' = "None" /\ UNCHANGED insertion_index
       ELSE /\ lastRet' = "position"
            /\ insertion_index' =
                 CASE direction = "Left" ->
                        IF insertion_index > 0 THEN insertion_index - 1
                        ELSE insertion_index
                   [] direction = "Right" ->
                        IF insertion_index < Len(current_text) THEN insertion_index + 1
                        ELSE insertion_index
                   [] direction = "Up" ->
                        IF line_num > 0
                        THEN find_actual_index(wrapped_lines, line_num - 1,
                                               Clip(wrapped_lines[line_num]))
                        ELSE insertion_index
                   [] direction = "Down" ->
                        IF line_num < Len(wrapped_lines) - 1
                        THEN find_actual_index(wrapped_lines, line_num + 1,
                                               Clip(wrapped_lines[line_num + 2]))
                        ELSE insertion_index
    /\ lastOp' = "move_cursor"
    /\ char' = ""
    /\ UNCHANGED <<block_width, text_blocks, current_text_item, current_text, canvas_items>>
    /\ HandlerFrame

\* delete_blocks(block_ids)
delete_blocks(block_ids) ==
    /\ text_blocks' = SelectSeq(text_blocks, LAMBDA b : b.id \notin block_ids)
    /\ IF current_text_item \in block_ids
       THEN current_text_item' = 0 /\ current_text' = <<>>
       ELSE UNCHANGED <<current_text_item, current_text>>
    /\ lastOp' = "delete_blocks" /\ lastRet' = "None"
    /\ char' = "" /\ UNCHANGED <<block_width, insertion_index, canvas_items>> /\ HandlerFrame

\* set_block_width(width)
set_block_width(width) ==
    /\ block_width' = width
    /\ lastOp' = "set_block_width" /\ lastRet' = "None"
    /\ char' = ""
    /\ UNCHANGED <<text_blocks, current_text_item, current_text, insertion_index, canvas_items>>
    /\ HandlerFrame

InitHandlerSpec ==
    /\ InitDoc /\ IdleFile /\ IdleSettings /\ IdleSearch /\ IdleAudio /\ IdleRest
    /\ lastOp = "init" /\ lastRet = "None"

NextHandler ==
    \/ create_new_text_block
    \/ \E c \in BlockChars : add_character(c)
    \/ handle_backspace
    \/ \E a \in 0..MaxText, b \in 0..MaxText : delete_selection(a, b)
    \/ \E d \in Directions : move_cursor(d)
    \/ \E ids \in SUBSET (1..MaxBlocks) : delete_blocks(ids)
    \/ \E w \in BlockWidths : set_block_width(w)

SpecHandler == InitHandlerSpec /\ [][NextHandler]_vars

\* C13: add_character(c) inserts c at the insertion index: the new
\* current_text is old[:i] + c + old[i:], insertion_index becomes i + 1, and
\* the stored block whose id is current_text_item holds the same text; when
\* no block is active, a new block with empty text and insertion index 0 is
\* created first.  (Checked under SpecHandler.)
C13_AddCharacterInsertsAtIndex ==
    [][lastOp' = "add_character" =>
         LET fresh == current_text_item = 0
             old == IF fresh THEN <<>> ELSE current_text
             i == IF fresh THEN 0 ELSE insertion_index
         IN /\ current_text' = SubSeq(old, 1, i) \o <<char'>> \o SubSeq(old, i + 1, Len(old))
            /\ insertion_index' = i + 1
            /\ current_text_item' # 0
            /\ \E k \in DOMAIN text_blocks' : text_blocks'[k].id = current_text_item'
            /\ \A k \in DOMAIN text_blocks' :
                  text_blocks'[k].id = current_text_item'
                     => text_blocks'[k].text = current_text'
            /\ IF fresh
               THEN /\ Len(text_blocks') = Len(text_blocks) + 1
                    /\ \A k \in DOMAIN text_blocks : text_blocks[k].id # current_text_item'
                    /\ \A k \in DOMAIN text_blocks : text_blocks'[k] = text_blocks[k]
               ELSE /\ current_text_item' = current_text_item
                    /\ Len(text_blocks') = Len(text_blocks)
      ]_vars

\* C13 witness: a character has just been inserted in the middle of the text
\* of the second block
C13_Witness ==
    /\ lastOp = "add_character" /\ Len(text_blocks) = 2
    /\ 1 < insertion_index /\ insertion_index < Len(current_text)
    /\ char = "a" /\ current_text[Len(current_text)] = " "

\* C19: find_actual_index is the inverse of find_wrapped_position: with
\* lines = wrap_text_to_width(text, width), every index i in 0..len(text)
\* satisfies find_actual_index(lines, *find_wrapped_position(lines, i)) = i.
\* (Checked under SpecHandler, for the text and the width of the active
\* block.)
C19_ActualIndexInvertsWrappedPosition ==
    LET lines == wrap_text_to_width(current_text, block_width) IN
    \A i \in 0..Len(current_text) :
       LET pos == find_wrapped_position(lines, i)
       IN find_actual_index(lines, pos[1], pos[2]) = i

\* the sum of the lengths of the lines
RECURSIVE TotalLength(_)
TotalLength(lines) == IF lines = <<>> THEN 0 ELSE Len(Head(lines)) + TotalLength(Tail(lines))

\* C20: wrap_text_to_width wraps the text to fit within the width: every
\* returned line measures at most width, and the lines contain every
\* character of the text with one space or newline consumed at each line
\* break (sum of line lengths + number of lines - 1 = len(text)).  (Checked
\* under SpecHandler, for the text and the width of the active block.)
C20_WrappedLinesFitWidth ==
    LET lines == wrap_text_to_width(current_text, block_width) IN
    /\ \A k \in DOMAIN lines : measure(lines[k]) <= block_width
    /\ TotalLength(lines) + Len(lines) - 1 = Len(current_text)

----------------------------------------------------------------------------
(* The global hotkeys: TextEditorApp.setup_shortcuts / save_shortcuts *)

\* most save_shortcuts calls
MaxSaves == 2

\* the editor actions setup_shortcuts binds, in the order of its add_hotkey
\* calls, with the defaults of its shortcuts.get calls
HotkeyActions ==
    <<"transcribe", "system_audio", "cut", "copy", "paste", "save", "open", "new">>
HotkeyDefaults ==
    <<"f9", "f10", "ctrl+x", "ctrl+c", "ctrl+v", "ctrl+s", "ctrl+o", "ctrl+n">>
\* the actions the user rebinds in the shortcut editor and the combinations
\* recorded for them
EditedActions == {"transcribe", "system_audio"}
EditedCombos == {"f8", "f9", "f10"}
KeyCombos == EditedCombos \cup {HotkeyDefaults[k] : k \in DOMAIN HotkeyDefaults}

\* get_shortcuts(): the dict settings["shortcuts"], as action -> combination,
\* in the order of the keys
get_shortcuts(obj) ==
    LET has(a) == <<"shortcuts", a>> \in DOMAIN obj
        keysOf == SelectSeq(HotkeyActions, has)
    IN [k \in DOMAIN keysOf |-> [action |-> keysOf[k],
                                 combo |-> obj[<<"shortcuts", keysOf[k]>>][2]]]

\* shortcuts.get(action, default)
ShortcutOrDefault(obj, k) ==
    IF <<"shortcuts", HotkeyActions[k]>> \in DOMAIN obj
    THEN obj[<<"shortcuts", HotkeyActions[k]>>][2]
    ELSE HotkeyDefaults[k]

\* keyboard.remove_hotkey(combo) inside try / except: the hotkey registered
\* last under that name is removed; an unknown name raises KeyError, which
\* the except clause swallows
remove_hotkey(reg, combo) ==
    IF \E k \in DOMAIN reg : reg[k].combo = combo
    THEN LET k == CHOOSE k \in DOMAIN reg :
                      reg[k].combo = combo /\ \A j \in (k + 1)..Len(reg) : reg[j].combo # combo
         IN SubSeq(reg, 1, k - 1) \o SubSeq(reg, k + 1, Len(reg))
    ELSE reg

\* setup_shortcuts, "for shortcut in shortcuts.values(): remove_hotkey(shortcut)",
\* from the k-th value on
RECURSIVE ClearShortcuts(_, _, _)
ClearShortcuts(reg, shortcuts, k) ==
    IF k > Len(shortcuts) THEN reg
    ELSE ClearShortcuts(remove_hotkey(reg, shortcuts[k].combo), shortcuts, k + 1)

\* setup_shortcuts, the eight add_hotkey calls
AddShortcuts(reg, obj) ==
    reg \o [k \in DOMAIN HotkeyActions |->
              [combo |-> ShortcutOrDefault(obj, k), action |-> HotkeyActions[k]]]

\* setup_shortcuts with the settings obj
SetupShortcuts(reg, obj) == AddShortcuts(ClearShortcuts(reg, get_shortcuts(obj), 1), obj)

\* the settings after "for action, key_combo in new_shortcuts.items():
\* update_shortcut(action, key_combo)", from the k-th action on
RECURSIVE WithShortcuts(_, _, _)
WithShortcuts(obj, new_shortcuts, k) ==
    IF k > Len(HotkeyActions) THEN obj
    ELSE WithShortcuts(WithShortcut(obj, HotkeyActions[k], new_shortcuts[HotkeyActions[k]]),
                       new_shortcuts, k + 1)

\* the dicts the shortcut editor hands to save_shortcuts: every action, the
\* edited ones with a recorded combination, the others as they are
NewShortcuts ==
    {[a \in {HotkeyActions[k] : k \in DOMAIN HotkeyActions} |->
         IF a \in EditedActions THEN e[a] ELSE ShortcutKey(a)] :
       e \in [EditedActions -> EditedCombos]}

\* save_shortcuts(new_shortcuts): every update_shortcut saves the settings
\* (wr is how these writes end), then setup_shortcuts
save_shortcuts(new_shortcuts, wr) ==
    LET obj == WithShortcuts(settings, new_shortcuts, 1) IN
    /\ saves < MaxSaves
    /\ saves' = saves + 1
    /\ settings' = obj
    /\ config' = SaveSettingsResult(obj, wr).config
    /\ hotkeys' = SetupShortcuts(hotkeys, obj)
    /\ pressed' = "" /\ triggered' = {}
    /\ lastOp' = "save_shortcuts" /\ lastRet' = "None"
    /\ UNCHANGED notShortcuts

\* the user presses key combination k: the keyboard library calls the
\* callback of every hotkey registered for it
PressCombo(k) ==
    /\ pressed' = k
    /\ triggered' = {hotkeys[j].action : j \in {i \in DOMAIN hotkeys : hotkeys[i].combo = k}}
    /\ lastOp' = "press" /\ lastRet' = "None"
    /\ UNCHANGED <<hotkeys, saves, settings, config>>
    /\ UNCHANGED notShortcuts

\* TextEditorApp.__init__: the settings are loaded and setup_shortcuts runs
InitShortcuts ==
    /\ InitDoc /\ IdleFile /\ IdleSearch /\ IdleAudio /\ InitHandler /\ IdleCalls /\ InitApp
    /\ IdleSelection
    /\ config \in {NoConfig, JsonConfig(Dump(get_default_settings))}
    /\ settings = load_settings
    /\ lastArg = <<<<>>, PyNone>>
    /\ hotkeys = SetupShortcuts(<<>>, settings)
    /\ saves = 0 /\ pressed = "" /\ triggered = {}
    /\ lastOp = "init" /\ lastRet = "None"

NextShortcuts ==
    \/ \E n \in NewShortcuts, wr \in WriteOutcomes : save_shortcuts(n, wr)
    \/ \E k \in KeyCombos : PressCombo(k)

SpecShortcuts == InitShortcuts /\ [][NextShortcuts]_vars

\* C14: after save_shortcuts, each editor action is triggered only by its
\* currently configured key combination, and a key combination that was
\* replaced no longer triggers any action: every action a key press
\* triggers has the pressed combination as its configured shortcut.
\* (Checked under SpecShortcuts.)
C14_OnlyConfiguredComboTriggers ==
    lastOp = "press" => \A a \in triggered : ShortcutKey(a) = pressed

----------------------------------------------------------------------------
(* start_microphone_transcription called on two threads *)

\* the recording threads that have not left their recording loop
Recording == {i \in DOMAIN thr : thr[i].pc \in {"opening", "loop"}}

\* start_microphone_transcription up to "if self.is_recording: return False",
\* on thread c
StartCheck(c) ==
    /\ calls[c] = "idle"
    /\ Len(thr) + Cardinality({d \in Callers : calls[d] = "checked"}) < MaxStarts
    /\ IF CanStart
       THEN calls' = [calls EXCEPT ![c] = "checked"] /\ ThreadStamp
       ELSE /\ lastOp' = "start_microphone_transcription" /\ lastRet' = "False"
            /\ UNCHANGED calls
    /\ UNCHANGED <<is_recording, is_paused, audio_frames, audio_queue, thr, proc, chunk,
                   stopped, recording_thread, settings, audObj, continuous_mode, keys,
                   stopPc>>
    /\ Quiet
    /\ UNCHANGED <<docVars, fileVars, srchVars, config, lastArg, hdlVars, keyVars, appVars,
                   selVars>>

\* start_microphone_transcription from "self.is_recording = True" to
\* "return True", on thread c
StartSet(c) ==
    /\ calls[c] = "checked"
    /\ calls' = [calls EXCEPT ![c] = "idle"]
    /\ is_recording' = TRUE
    /\ audio_frames' = 0
    /\ thr' = Append(thr, NewThread("mic"))
    /\ recording_thread' = Len(thr) + 1
    /\ stopped' = FALSE
    /\ lastOp' = "start_microphone_transcription" /\ lastRet' = "True"
    /\ UNCHANGED <<is_paused, audio_queue, proc, chunk, settings, audObj, continuous_mode,
                   keys, stopPc>>
    /\ Quiet
    /\ UNCHANGED <<docVars, fileVars, srchVars, config, lastArg, hdlVars, keyVars, appVars,
                   selVars>>

InitStart == InitRecorder

NextStart ==
    \/ \E c \in Callers : StartCheck(c)
    \/ \E c \in Callers : StartSet(c)
    \/ \E k \in HotKeys : PressKey(k)
    \/ \E k \in HotKeys : ReleaseKey(k)
    \/ \E i \in 1..MaxStarts, ok \in BOOLEAN : OpenStream(i, ok)
    \/ \E i \in 1..MaxStarts : ReadChunk(i)
    \/ \E i \in 1..MaxStarts : LeaveLoop(i, FALSE)
    \/ \E i \in 1..MaxStarts, net \in NetOutcomes : ProcessRecording(i, net, FALSE)

SpecStart == InitStart /\ [][NextStart]_vars

\* C15: at any time at most one recording thread per recorder is running:
\* when the start operation is invoked several times while a recording is
\* starting or in progress, only one call starts a thread and only one
\* thread appends to audio_frames.  (Checked under SpecStart.)
C15_OneRecordingThread == Cardinality(Recording) <= 1

----------------------------------------------------------------------------
(* TextEditorApp: one hold of the system-audio shortcut (main.py) *)

\* most press-and-holds of the shortcut
MaxHolds == 1

\* the start method of recorder object r (start_capture(shortcut_key = ...),
\* AudioRecorder.start_system_audio_capture): refused without an API key or
\* while that object is recording
RecorderStarted(r) ==
    IF Falsy(get_api_key) \/ r.is_recording THEN r
    ELSE [is_recording |-> TRUE, audio_frames |-> 0, pc |-> "opening"]

\* TextEditorApp.start_system_audio_capture: the recorders after it
AfterAppStart(rs) ==
    IF Falsy(get_api_key) \/ get_setting(settings, "system_audio", PyFalse) # PyTrue
    THEN rs
    ELSE [o \in AppRecorders |-> RecorderStarted(rs[o])]

AppFrame == UNCHANGED notApp
AppStamp(op) == lastOp' = op /\ lastRet' = "None"

\* the user presses the system-audio shortcut and keeps it down: the hotkey
\* callback TextEditorApp.start_system_audio_capture runs
HoldShortcut ==
    /\ ~held /\ holds < MaxHolds
    /\ held' = TRUE /\ holds' = holds + 1
    /\ recs' = AfterAppStart(recs)
    /\ started' = started + Cardinality({o \in AppRecorders : recs'[o] # recs[o]})
    /\ UNCHANGED <<requests, inserted>>
    /\ AppStamp("start_system_audio_capture") /\ AppFrame

\* the user lets go of the key
ReleaseShortcut ==
    /\ held /\ held' = FALSE
    /\ UNCHANGED <<recs, holds, started, requests, inserted>>
    /\ AppStamp("step") /\ AppFrame

\* the thread of recorder o opens its input stream, or fails to
AppOpenStream(o, ok) ==
    /\ recs[o].pc = "opening"
    /\ recs' = [recs EXCEPT ![o] = IF ok THEN [@ EXCEPT !.pc = "loop"]
                                  ELSE [@ EXCEPT !.pc = "done", !.is_recording = FALSE]]
    /\ UNCHANGED <<held, holds, started, requests, inserted>>
    /\ AppStamp("step") /\ AppFrame

\* the stream callback of recorder o appends a block of audio
AppAudioCallback(o) ==
    /\ recs[o].pc = "loop" /\ recs[o].is_recording
    /\ recs[o].audio_frames < MaxFrames
    /\ recs' = [recs EXCEPT ![o].audio_frames = @ + 1]
    /\ UNCHANGED <<held, holds, started, requests, inserted>>
    /\ AppStamp("step") /\ AppFrame

\* the thread of recorder o finds the key released: the recording ends
AppLeaveLoop(o) ==
    /\ recs[o].pc = "loop" /\ ~held
    /\ recs' = [recs EXCEPT ![o] = [@ EXCEPT !.is_recording = FALSE,
                                             !.pc = IF recs[o].audio_frames > 0
                                                    THEN "process" ELSE "done"]]
    /\ UNCHANGED <<held, holds, started, requests, inserted>>
    /\ AppStamp("step") /\ AppFrame

\* _process_audio / process_system_audio of recorder o: the recording is sent
\* for transcription (SystemAudioCapture skips a silent one) and the
\* transcript is handed to add_transcribed_text
AppProcess(o, net, silent) ==
    /\ recs[o].pc = "process"
    /\ silent => o = "system_audio_capture"
    /\ recs' = [recs EXCEPT ![o].pc = "done"]
    /\ requests' = IF silent THEN requests ELSE requests + 1
    /\ inserted' = IF ~silent /\ net = "ok_text" THEN inserted + 1 ELSE inserted
    /\ UNCHANGED <<held, holds, started>>
    /\ AppStamp("step") /\ AppFrame

InitAppSettings ==
    {WithSetting(WithSetting(get_default_settings, "api_key", Str(k)), "system_audio", b) :
        k \in ApiKeys, b \in {PyTrue, PyFalse}}

InitAppSpec ==
    /\ InitDoc /\ IdleFile /\ IdleSearch /\ IdleAudio
    /\ InitHandler /\ IdleShortcuts /\ IdleCalls /\ InitApp /\ IdleSelection
    /\ config = NoConfig /\ lastArg = <<<<>>, PyNone>>
    /\ settings \in InitAppSettings
    /\ lastOp = "init" /\ lastRet = "None"

NextApp ==
    \/ HoldShortcut
    \/ ReleaseShortcut
    \/ \E o \in AppRecorders, ok \in BOOLEAN : AppOpenStream(o, ok)
    \/ \E o \in AppRecorders : AppAudioCallback(o)
    \/ \E o \in AppRecorders : AppLeaveLoop(o)
    \/ \E o \in AppRecorders, net \in NetOutcomes, silent \in BOOLEAN :
          AppProcess(o, net, silent)

SpecApp == InitAppSpec /\ [][NextApp]_vars

\* C18: one press-and-hold of the system-audio shortcut starts at most one
\* system-audio recording, so the audio of that hold is sent for
\* transcription once and its transcript is inserted at most once: there are
\* never more recordings, requests or insertions than holds.  (Checked under
\* SpecApp.)
C18_OneRecordingPerHold ==
    started <= holds /\ requests <= holds /\ inserted <= holds

----------------------------------------------------------------------------
(* SelectionHandler: selecting blocks and dragging them (text/selection.py) *)

\* largest pointer coordinate
MaxCoord == 1
\* farthest a block is dragged from its first place, along each axis
MaxDrift == 1

\* the pointer positions of the mouse events
Coords == 0..MaxCoord
\* the blocks on the canvas when the selection is looked at: two blocks with
\* text, one above the other
StoredBlocks == <<[id |-> 1, text |-> <<"a">>], [id |-> 2, text |-> <<"a">>]>>
StoredPlaces == <<<<20, 20>>, <<20, 40>>>>

Ids(sel) == {sel[k] : k \in DOMAIN sel}

\* a mutant of NextMoveStart: the start position of the move is not updated
MoveStartKept(x, y) == <<move_start_x, move_start_y>>

\* update_block_movement: "self.move_start_x = x; self.move_start_y = y"
NextMoveStart(x, y) == <<x, y>>

\* update_block_movement, "for block_id in self.selected_blocks", from the
\* k-th id on: every stored block with that id is moved by (dx, dy)
RECURSIVE MoveSelected(_, _, _, _, _)
MoveSelected(xy, sel, k, dx, dy) ==
    IF k > Len(sel) THEN xy
    ELSE MoveSelected([id \in DOMAIN xy |->
                          IF id = sel[k] THEN <<xy[id][1] + dx, xy[id][2] + dy>> ELSE xy[id]],
                      sel, k + 1, dx, dy)

\* the blocks are within MaxDrift of their first places
InReach(xy) ==
    \A id \in DOMAIN xy : \A c \in 1..2 :
       xy[id][c] - StoredPlaces[id][c] \in (0 - MaxDrift)..MaxDrift

SelectionFrame == UNCHANGED <<notSelection, hdlVars>>

\* a call other than update_block_movement: no drag made of updates only
NoPureDrag ==
    /\ drag_pure' = FALSE
    /\ drag_origin' = <<0, 0>> /\ drag_last' = <<0, 0>> /\ drag_from' = StoredPlaces

\* add_block_to_selection(block)
add_block_to_selection(id) ==
    /\ id \in DOMAIN block_xy
    /\ selected_blocks' = IF id \in Ids(selected_blocks) THEN selected_blocks
                          ELSE Append(selected_blocks, id)
    /\ NoPureDrag
    /\ lastOp' = "add_block_to_selection" /\ lastRet' = "None"
    /\ UNCHANGED <<block_xy, is_moving_blocks, move_start_x, move_start_y>>
    /\ SelectionFrame

\* clear_all_selections
clear_all_selections ==
    /\ selected_blocks' = <<>>
    /\ NoPureDrag
    /\ lastOp' = "clear_all_selections" /\ lastRet' = "None"
    /\ UNCHANGED <<block_xy, is_moving_blocks, move_start_x, move_start_y>>
    /\ SelectionFrame

\* select_all_blocks
select_all_blocks ==
    /\ selected_blocks' = [k \in DOMAIN text_blocks |-> text_blocks[k].id]
    /\ NoPureDrag
    /\ lastOp' = "select_all_blocks" /\ lastRet' = "None"
    /\ UNCHANGED <<block_xy, is_moving_blocks, move_start_x, move_start_y>>
    /\ SelectionFrame

\* start_block_movement(x, y)
start_block_movement(x, y) ==
    /\ is_moving_blocks' = TRUE
    /\ move_start_x' = x /\ move_start_y' = y
    /\ drag_origin' = <<x, y>> /\ drag_last' = <<x, y>>
    /\ drag_from' = block_xy /\ drag_pure' = TRUE
    /\ lastOp' = "start_block_movement" /\ lastRet' = "None"
    /\ UNCHANGED <<block_xy, selected_blocks>>
    /\ SelectionFrame

\* update_block_movement(x, y)
update_block_movement(x, y) ==
    /\ IF is_moving_blocks /\ selected_blocks # <<>>
       THEN /\ block_xy' = MoveSelected(block_xy, selected_blocks, 1,
                                        x - move_start_x, y - move_start_y)
            /\ move_start_x' = NextMoveStart(x, y)[1]
            /\ move_start_y' = NextMoveStart(x, y)[2]
       ELSE UNCHANGED <<block_xy, move_start_x, move_start_y>>
    /\ InReach(block_xy')
    /\ drag_last' = IF drag_pure THEN <<x, y>> ELSE drag_last
    /\ lastOp' = "update_block_movement" /\ lastRet' = "None"
    /\ UNCHANGED <<selected_blocks, is_moving_blocks, drag_origin, drag_from, drag_pure>>
    /\ SelectionFrame

\* end_block_movement(ctrl_pressed): without control the selection is cleared
\* and the selected blocks that are still stored are selected again
end_block_movement(ctrl_pressed) ==
    /\ is_moving_blocks' = FALSE
    /\ selected_blocks' =
         IF ctrl_pressed THEN selected_blocks
         ELSE SelectSeq(selected_blocks, LAMBDA id : id \in DOMAIN block_xy)
    /\ NoPureDrag
    /\ lastOp' = "end_block_movement" /\ lastRet' = "None"
    /\ UNCHANGED <<block_xy, move_start_x, move_start_y>>
    /\ SelectionFrame

InitSelectionSpec ==
    /\ InitDoc /\ IdleFile /\ IdleSettings /\ IdleSearch /\ IdleAudio
    /\ IdleShortcuts /\ IdleCalls /\ InitApp
    /\ block_width = 300 /\ text_blocks = StoredBlocks
    /\ current_text_item = 2 /\ current_text = <<"a">> /\ insertion_index = 1
    /\ canvas_items = 2 /\ char = ""
    /\ InitSelection
    /\ block_xy = StoredPlaces /\ drag_from = StoredPlaces
    /\ lastOp = "init" /\ lastRet = "None"

NextSelection ==
    \/ \E id \in DOMAIN StoredBlocks : add_block_to_selection(id)
    \/ clear_all_selections
    \/ select_all_blocks
    \/ \E x \in Coords, y \in Coords : start_block_movement(x, y)
    \/ \E x \in Coords, y \in Coords : update_block_movement(x, y)
    \/ \E ctrl_pressed \in BOOLEAN : end_block_movement(ctrl_pressed)

SpecSelection == InitSelectionSpec /\ [][NextSelection]_vars

\* C21: between start_block_movement(x0, y0) and end_block_movement, after
\* any sequence of update_block_movement calls whose last pointer position
\* is (xn, yn), each selected block is at its position at the start of the
\* drag plus (xn - x0, yn - y0) and the blocks that are not selected have
\* not moved; update_block_movement changes nothing when no movement was
\* started.  (Checked under SpecSelection.)
C21_DraggedBlocksFollowPointer ==
    [][/\ (is_moving_blocks' /\ drag_pure') =>
            \A id \in DOMAIN block_xy' :
               block_xy'[id] =
                  IF id \in Ids(selected_blocks')
                  THEN <<drag_from'[id][1] + drag_last'[1] - drag_origin'[1],
                         drag_from'[id][2] + drag_last'[2] - drag_origin'[2]>>
                  ELSE drag_from'[id]
       /\ (lastOp' = "update_block_movement" /\ ~is_moving_blocks) =>
            UNCHANGED <<block_xy, selected_blocks, is_moving_blocks, move_start_x,
                        move_start_y, text_blocks>>
      ]_vars

\* C21 witness: a drag in progress, made of update_block_movement calls only,
\* has moved the selected block 1 away from where the drag found it, to a
\* pointer position other than the one of the drag's start, while block 2 is
\* not selected
C21_Witness ==
    /\ lastOp = "update_block_movement" /\ is_moving_blocks /\ drag_pure
    /\ selected_blocks = <<1>>
    /\ drag_last # drag_origin /\ block_xy[1] # drag_from[1]
    /\ drag_from[1] # StoredPlaces[1]

====
